---- MODULE Spec2Model ----
(***************************************************************************)
(* HyDFS file plane: consistent-hash ring, block store, client-write       *)
(* tracker and the create / append / get / merge handlers of               *)
(* FileOperationsHandler, modelled from the C++ sources.                   *)
(*                                                                         *)
(* The specifications share the variables:                                 *)
(*   Spec      - the replicated protocol on a fixed ring of four nodes     *)
(*   SpecStore - the FileStore API of one node, called with any arguments  *)
(*   SpecRing  - ConsistentHashRing add / remove / getFileReplicas         *)
(*   SpecGet   - the create and get commands of Spec under fair scheduling *)
(*   SpecConc  - FileStore calls of concurrent threads, one step per       *)
(*               statement, under the store's shared_mutex                 *)
(*   SpecLs    - the ls command and the FILE_EXISTS exchange               *)
(*   SpecPair  - getFile called from two threads of one node               *)
(*   SpecMessage - the membership wire format and Node::handleIncoming     *)
(*   SpecWire  - the file-plane wire format and truncated datagrams        *)
(*   SpecMember - the membership handlers of one Node, its list and ring   *)
(*   SpecSeq   - appendFile called from two threads of one node            *)
(***************************************************************************)
EXTENDS Integers, Sequences, FiniteSets, Bags, TLC

VARIABLES
  ring,              \* ConsistentHashRing::ring      position -> NodeId
  file_store,        \* per node: FileStore {files, blocks}
  client_tracker,    \* per node: ClientTracker::client_appends
  sequence_numbers,  \* per node: FileOperationsHandler::sequence_numbers_
  local_file_cache,  \* per node: FileOperationsHandler::local_file_cache_
  pending_gets,      \* per node: pending_gets_   hydfs name -> local name
  get_results,       \* per node: get_results_    hydfs name -> bool
  network,           \* bag of datagrams in flight
  now,               \* std::chrono::system_clock, milliseconds
  caller,            \* per node: position of the CLI thread
  ops,               \* number of CLI commands issued so far
  dups,              \* number of datagrams the network has duplicated or refused
  last,              \* what the last step did and returned (observer)
  acked,             \* appends whose appendFile returned true (observer)
  created,           \* the createFile calls that returned true (observer)
  merged,            \* per name: mergeFile calls that returned true (observer)
  timed_out,         \* per node: getFile calls that returned by timeout (observer)
  ingress,           \* per node: what the ingress thread has left of its handler
  pending_ls,        \* per node: pending_ls_   hydfs name -> LsRequestState
  last_replicas,     \* SpecRing: the last getFileReplicas call and its result
  mtx,               \* SpecConc: FileStore::mtx
  thread,            \* SpecConc: position and locals of each thread
  mem_list,          \* SpecMember: MembershipList::mem_list  NodeId -> MembershipInfo
  introducer_alive,  \* SpecMember: Node::introducer_alive
  issued             \* SpecSeq: what getNextSequenceNum returned, in order (observer)

vars == <<ring, file_store, client_tracker, sequence_numbers, local_file_cache,
          pending_gets, get_results, network, now, caller, ops, dups, last,
          acked, created, merged, timed_out, ingress, pending_ls, last_replicas, mtx, thread,
          mem_list, introducer_alive, issued>>

----------------------------------------------------------------------------
(* Bounds of the model *)

MaxOps == 3          \* CLI commands issued in one behaviour of Spec
MaxTime == 1         \* the clock runs over 0..MaxTime
MaxPerturb == 1      \* clock ticks, duplicated datagrams and failed sends in one behaviour of Spec
MaxStoreOps == 3     \* FileStore calls in one behaviour of SpecStore
MaxConcCalls == 3    \* createFile and appendBlock calls in one behaviour of SpecConc
MaxLsOps == 2        \* CLI commands issued in one behaviour of SpecLs
MaxPairOps == 3      \* create and getFile calls in one behaviour of SpecPair
MaxEntries == 2      \* entries in one membership Message of SpecMessage
MaxWireOps == 2      \* datagrams received in one behaviour of SpecWire
MaxRingCalls == 2    \* largest n passed to getFileReplicas in SpecRing is this + 2
MaxSeqCalls == 3     \* appendFile calls in one behaviour of SpecSeq
MaxMemberOps == 3    \* messages and timeouts handled in one behaviour of SpecMember
MaxCounter == 1      \* incarnation and heartbeat_counter of a received entry: 0..this

(* Program constants *)

ReplicaCount == 3    \* the n of every getFileReplicas(name, 3) call
CreateSleepMs == 100 \* createFile sleeps this long after its sends, then returns
AckTimeoutMs == 5000 \* default timeout_ms of the declared waitForReplicationAcks

----------------------------------------------------------------------------
(* Universe of values *)

Nodes == {"n1", "n2", "n3", "n4"}
RingNodes == Nodes \cup {"n5"}
FileNames == {"f1", "f2"}
Positions == 0..7
NoName == ""

(* std::hash of "host:port:time": n5 collides with n1 *)
hashNodeId == [n \in RingNodes |->
                 CASE n = "n1" -> 1 [] n = "n2" -> 3 [] n = "n3" -> 5
                   [] n = "n4" -> 6 [] n = "n5" -> 1]

(* std::hash of the file name *)
hashFilename == [f \in FileNames |-> CASE f = "f1" -> 2 [] f = "f2" -> 7]

(* getClientId(): the "host:port:time" text of the node's own id *)
getClientId(n) == n

(* std::to_string(req.client_id), req.client_id = getNodePosition(self) *)
PositionString(n) == ToString(hashNodeId[n])

----------------------------------------------------------------------------
(* Maps: std::map / std::unordered_map as functions on a finite domain *)

EmptyMap == <<>>

Put(m, k, v) == [x \in (DOMAIN m) \cup {k} |-> IF x = k THEN v ELSE m[x]]

Erase(m, ks) == [x \in (DOMAIN m) \ ks |-> m[x]]

Range(s) == {s[i] : i \in DOMAIN s}

RECURSIVE SumSeq(_)
SumSeq(s) == IF s = <<>> THEN 0 ELSE Head(s) + SumSeq(Tail(s))

RECURSIVE Flatten(_)
Flatten(ss) == IF ss = <<>> THEN <<>> ELSE Head(ss) \o Flatten(Tail(ss))

RECURSIVE SortedSeq(_)
SortedSeq(S) ==
  IF S = {} THEN <<>>
  ELSE LET m == CHOOSE x \in S : \A y \in S : x <= y
       IN <<m>> \o SortedSeq(S \ {m})

----------------------------------------------------------------------------
(* ConsistentHashRing *)

addNode(r, node) == Put(r, hashNodeId[node], node)

removeNode(r, node) == Erase(r, {hashNodeId[node]})

RECURSIVE CollectSuccessors(_, _, _, _, _)
CollectSuccessors(r, keys, it, n, successors) ==
  IF ~(Len(successors) < n /\ Len(successors) < Len(keys))
  THEN successors
  ELSE LET at == IF it > Len(keys) THEN 1 ELSE it
       IN CollectSuccessors(r, keys, at + 1, n, Append(successors, r[keys[at]]))

getSuccessorsUpper(r, position, n) ==
  IF DOMAIN r = {}
  THEN <<>>
  ELSE LET keys == SortedSeq(DOMAIN r)
           upper_bound == Cardinality({k \in DOMAIN r : k <= position}) + 1
       IN CollectSuccessors(r, keys, upper_bound, n, <<>>)

getSuccessors(r, position, n) ==
  IF DOMAIN r = {}
  THEN <<>>
  ELSE LET keys == SortedSeq(DOMAIN r)
           lower_bound == Cardinality({k \in DOMAIN r : k < position}) + 1
       IN CollectSuccessors(r, keys, lower_bound, n, <<>>)

getFileReplicas(r, filename, n) == getSuccessors(r, hashFilename[filename], n)

----------------------------------------------------------------------------
(* FileBlock, FileMetadata, FileStore.  version is a uint32 that the model     *)
(* never brings near 2^32, so version++ is written without its modulus.      *)

generateBlockId(client_id, timestamp, sequence_num) ==
  <<client_id, timestamp, sequence_num>>

FileBlock(client_id, sequence_num, timestamp, data) ==
  [block_id |-> generateBlockId(client_id, timestamp, sequence_num),
   client_id |-> client_id, sequence_num |-> sequence_num,
   timestamp |-> timestamp, data |-> data, size |-> Len(data)]

EmptyStore == [files |-> EmptyMap, blocks |-> EmptyMap]

(* a value-initialised FileMetadata, returned for an unknown name *)
NoMetadata ==
  [hydfs_filename |-> NoName, total_size |-> 0, block_ids |-> <<>>, version |-> 0,
   created_timestamp |-> 0, last_modified_timestamp |-> 0]

(* a createFile without the `if (!data.empty())` of line 61 *)
createFileAlwaysBlock(s, filename, data, client_id, timestamp) ==
  IF filename \in DOMAIN s.files
  THEN [ok |-> FALSE, store |-> s]
  ELSE LET block == FileBlock(client_id, 0, timestamp, data)
           metadata ==
             [hydfs_filename |-> filename, total_size |-> Len(data),
              block_ids |-> <<block.block_id>>,
              version |-> 1, created_timestamp |-> timestamp,
              last_modified_timestamp |-> timestamp]
       IN [ok |-> TRUE,
           store |-> [files |-> Put(s.files, filename, metadata),
                      blocks |-> Put(s.blocks, block.block_id, block)]]

createFile(s, filename, data, client_id, timestamp) ==
  IF filename \in DOMAIN s.files
  THEN [ok |-> FALSE, store |-> s]
  ELSE LET block == FileBlock(client_id, 0, timestamp, data)
           metadata ==
             [hydfs_filename |-> filename, total_size |-> Len(data),
              block_ids |-> IF data # <<>> THEN <<block.block_id>> ELSE <<>>,
              version |-> 1, created_timestamp |-> timestamp,
              last_modified_timestamp |-> timestamp]
       IN [ok |-> TRUE,
           store |-> [files |-> Put(s.files, filename, metadata),
                      blocks |-> IF data # <<>>
                                 THEN Put(s.blocks, block.block_id, block)
                                 ELSE s.blocks]]

(* A variant of appendBlock that puts the new id first in block_ids *)
appendBlockAtFront(s, filename, block, timestamp) ==
  IF filename \notin DOMAIN s.files
  THEN [ok |-> FALSE, store |-> s]
  ELSE LET old == s.files[filename]
           metadata ==
             [old EXCEPT !.block_ids = <<block.block_id>> \o @,
                         !.total_size = @ + block.size,
                         !.last_modified_timestamp = timestamp,
                         !.version = @ + 1]
       IN [ok |-> TRUE,
           store |-> [files |-> Put(s.files, filename, metadata),
                      blocks |-> Put(s.blocks, block.block_id, block)]]

appendBlockNoVersion(s, filename, block, timestamp) ==
  IF filename \notin DOMAIN s.files
  THEN [ok |-> FALSE, store |-> s]
  ELSE LET old == s.files[filename]
           metadata ==
             [old EXCEPT !.block_ids = Append(@, block.block_id),
                         !.total_size = @ + block.size,
                         !.last_modified_timestamp = timestamp]
       IN [ok |-> TRUE,
           store |-> [files |-> Put(s.files, filename, metadata),
                      blocks |-> Put(s.blocks, block.block_id, block)]]

appendBlockNoPush(s, filename, block, timestamp) ==
  IF filename \notin DOMAIN s.files
  THEN [ok |-> FALSE, store |-> s]
  ELSE LET old == s.files[filename]
           metadata ==
             [old EXCEPT !.total_size = @ + block.size,
                         !.last_modified_timestamp = timestamp,
                         !.version = @ + 1]
       IN [ok |-> TRUE,
           store |-> [files |-> Put(s.files, filename, metadata),
                      blocks |-> Put(s.blocks, block.block_id, block)]]

appendBlock(s, filename, block, timestamp) ==
  IF filename \notin DOMAIN s.files
  THEN [ok |-> FALSE, store |-> s]
  ELSE LET old == s.files[filename]
           metadata ==
             [old EXCEPT !.block_ids = Append(@, block.block_id),
                         !.total_size = @ + block.size,
                         !.last_modified_timestamp = timestamp,
                         !.version = @ + 1]
       IN [ok |-> TRUE,
           store |-> [files |-> Put(s.files, filename, metadata),
                      blocks |-> Put(s.blocks, block.block_id, block)]]

hasFile(s, filename) == filename \in DOMAIN s.files

getFileMetadata(s, filename) ==
  IF filename \in DOMAIN s.files THEN s.files[filename] ELSE NoMetadata

(* the ids of block_ids that have a block, in block_ids order *)
PresentIds(s, filename) ==
  SelectSeq(getFileMetadata(s, filename).block_ids, LAMBDA id : id \in DOMAIN s.blocks)

getFileBlocks(s, filename) ==
  LET ids == PresentIds(s, filename) IN [i \in 1..Len(ids) |-> s.blocks[ids[i]]]

getFile(s, filename) ==
  LET bs == getFileBlocks(s, filename)
  IN Flatten([i \in 1..Len(bs) |-> bs[i].data])

listFiles(s) == DOMAIN s.files

(* blocks[block.block_id] = block for each block in turn: the last one wins *)
RECURSIVE PutBlocks(_, _)
PutBlocks(bm, bs) ==
  IF bs = <<>> THEN bm ELSE PutBlocks(Put(bm, Head(bs).block_id, Head(bs)), Tail(bs))

mergeFile(s, filename, all_blocks, timestamp) ==
  IF filename \notin DOMAIN s.files
  THEN [ok |-> FALSE, store |-> s]
  ELSE LET old == s.files[filename]
           cleared == Erase(s.blocks, Range(old.block_ids))
           metadata ==
             [old EXCEPT !.block_ids = [i \in 1..Len(all_blocks) |-> all_blocks[i].block_id],
                         !.total_size = SumSeq([i \in 1..Len(all_blocks) |-> all_blocks[i].size]),
                         !.version = @ + 1,
                         !.last_modified_timestamp = timestamp]
       IN [ok |-> TRUE,
           store |-> [files |-> Put(s.files, filename, metadata),
                      blocks |-> PutBlocks(cleared, all_blocks)]]

deleteFile(s, filename) ==
  IF filename \notin DOMAIN s.files
  THEN [ok |-> FALSE, store |-> s]
  ELSE [ok |-> TRUE,
        store |-> [files |-> Erase(s.files, {filename}),
                   blocks |-> Erase(s.blocks, Range(s.files[filename].block_ids))]]

clearAllFiles(s) == EmptyStore

storeFile(s, metadata, file_blocks) ==
  [ok |-> TRUE,
   store |-> [files |-> Put(s.files, metadata.hydfs_filename, metadata),
              blocks |-> PutBlocks(s.blocks, file_blocks)]]

----------------------------------------------------------------------------
(* ClientTracker *)

recordAppend(t, client_id, filename, block_id) ==
  LET key == <<client_id, filename>>
  IN Put(t, key, Append(IF key \in DOMAIN t THEN t[key] ELSE <<>>, block_id))

getClientAppends(t, client_id, filename) ==
  IF <<client_id, filename>> \in DOMAIN t THEN t[<<client_id, filename>>] ELSE <<>>

satisfiesReadMyWrites(t, client_id, filename, file_block_ids) ==
  \A id \in Range(getClientAppends(t, client_id, filename)) : id \in Range(file_block_ids)

----------------------------------------------------------------------------
(* Initial values shared by the specifications *)

Data == {<<1>>, <<2, 2>>}

(* loadTestFiles(): the local files every node starts with *)
InitialCache == [l \in {"a", "b"} |-> IF l = "a" THEN <<1>> ELSE <<2, 2>>]

NoCall == [n |-> -1]

InitRest ==
  /\ issued = <<>>
  /\ file_store = [n \in Nodes |-> EmptyStore]
  /\ client_tracker = [n \in Nodes |-> EmptyMap]
  /\ sequence_numbers = [n \in Nodes |-> EmptyMap]
  /\ local_file_cache = [n \in Nodes |-> InitialCache]
  /\ pending_gets = [n \in Nodes |-> EmptyMap]
  /\ get_results = [n \in Nodes |-> EmptyMap]
  /\ network = EmptyBag
  /\ now = 0
  /\ caller = [n \in Nodes |-> [pc |-> "idle"]]
  /\ ops = 0
  /\ dups = 0
  /\ last = [op |-> "init"]
  /\ acked = {}
  /\ created = {}
  /\ merged = EmptyMap
  /\ timed_out = [n \in Nodes |-> 0]
  /\ pending_ls = [n \in Nodes |-> EmptyMap]
  /\ ingress = [n \in Nodes |-> <<>>]
  /\ last_replicas = NoCall
  /\ mtx = [writer |-> "none", readers |-> {}]
  /\ thread = EmptyMap

InitBase ==
  /\ ring = EmptyMap
  /\ mem_list = EmptyMap
  /\ introducer_alive = TRUE
  /\ InitRest

Tick ==
  /\ now < MaxTime
  /\ now' = now + 1

----------------------------------------------------------------------------
(* SpecRing: one ConsistentHashRing under addNode, removeNode and            *)
(* getFileReplicas / getSuccessors calls                                     *)

RingAddNode(node) ==
  /\ ring' = addNode(ring, node)
  /\ last_replicas' = NoCall
  /\ UNCHANGED <<mem_list, introducer_alive, issued,
                 file_store, client_tracker, sequence_numbers, local_file_cache,
                 pending_gets, get_results, network, now, caller, ops, dups, last,
                 acked, created, merged, timed_out, ingress, pending_ls, mtx, thread>>

RingRemoveNode(node) ==
  /\ ring' = removeNode(ring, node)
  /\ last_replicas' = NoCall
  /\ UNCHANGED <<mem_list, introducer_alive, issued,
                 file_store, client_tracker, sequence_numbers, local_file_cache,
                 pending_gets, get_results, network, now, caller, ops, dups, last,
                 acked, created, merged, timed_out, ingress, pending_ls, mtx, thread>>

RingGetSuccessors(position, n) ==
  /\ last_replicas' = [n |-> n, position |-> position,
                       result |-> getSuccessors(ring, position, n)]
  /\ UNCHANGED <<ring, mem_list, introducer_alive, issued,
                 file_store, client_tracker, sequence_numbers, local_file_cache,
                 pending_gets, get_results, network, now, caller, ops, dups, last,
                 acked, created, merged, timed_out, ingress, pending_ls, mtx, thread>>

RingGetFileReplicas(filename, n) ==
  /\ last_replicas' = [n |-> n, position |-> hashFilename[filename],
                       result |-> getFileReplicas(ring, filename, n)]
  /\ UNCHANGED <<ring, mem_list, introducer_alive, issued,
                 file_store, client_tracker, sequence_numbers, local_file_cache,
                 pending_gets, get_results, network, now, caller, ops, dups, last,
                 acked, created, merged, timed_out, ingress, pending_ls, mtx, thread>>

NextRing ==
  \/ \E node \in RingNodes : RingAddNode(node)
  \/ \E node \in RingNodes : RingRemoveNode(node)
  \/ \E position \in Positions, n \in 0..(MaxRingCalls + 2) : RingGetSuccessors(position, n)
  \/ \E filename \in FileNames, n \in 0..(MaxRingCalls + 2) : RingGetFileReplicas(filename, n)

SpecRing == InitBase /\ [][NextRing]_vars

----------------------------------------------------------------------------
(* SpecStore: the FileStore of one node, every public operation called with  *)
(* arguments drawn from small sets                                           *)

StoreNode == "n1"
StoreClients == {"3"}

TheStore == file_store[StoreNode]

(* blocks as handleAppendRequest builds them; the first and the last have   *)
(* the same client, timestamp and sequence number, hence the same block_id   *)
SomeBlocks ==
  {FileBlock("3", 0, 0, <<1>>), FileBlock("3", 1, 0, <<2, 2>>), FileBlock("3", 0, 0, <<2, 2>>)}

BlockLists == {<<>>} \cup {<<b>> : b \in SomeBlocks}
                \cup {<<b1, b2>> : b1 \in SomeBlocks, b2 \in SomeBlocks}

(* a replica's copy of a file as REPLICATE_FILE would carry it *)
Snapshot(filename, bs) ==
  [hydfs_filename |-> filename,
   total_size |-> SumSeq([i \in 1..Len(bs) |-> bs[i].size]),
   block_ids |-> [i \in 1..Len(bs) |-> bs[i].block_id],
   version |-> 1, created_timestamp |-> 0, last_modified_timestamp |-> now]

StoreFrame ==
  UNCHANGED <<ring, mem_list, introducer_alive, issued,
              client_tracker, sequence_numbers, local_file_cache, pending_gets,
              get_results, network, now, caller, dups, acked, created, merged, timed_out,
              ingress, pending_ls,
              last_replicas, mtx, thread>>

StoreStep(op, filename, r) ==
  /\ ops < MaxStoreOps
  /\ ops' = ops + 1
  /\ file_store' = [file_store EXCEPT ![StoreNode] = r.store]
  /\ last' = [op |-> op, file |-> filename, ok |-> r.ok]
  /\ StoreFrame

StoreCreate(filename, data, client_id) ==
  LET r == createFile(TheStore, filename, data, client_id, now)
  IN /\ ops < MaxStoreOps
     /\ ops' = ops + 1
     /\ file_store' = [file_store EXCEPT ![StoreNode] = r.store]
     /\ last' = [op |-> "create", file |-> filename, ok |-> r.ok, data |-> data,
                 client_id |-> client_id]
     /\ StoreFrame

StoreAppend(filename, block) ==
  StoreStep("append", filename, appendBlock(TheStore, filename, block, now))

StoreMerge(filename, all_blocks) ==
  StoreStep("merge", filename, mergeFile(TheStore, filename, all_blocks, now))

StoreDelete(filename) ==
  StoreStep("delete", filename, deleteFile(TheStore, filename))

StoreStoreFile(filename, file_blocks) ==
  StoreStep("store", filename,
            storeFile(TheStore, Snapshot(filename, file_blocks), file_blocks))

StoreClearAll ==
  StoreStep("clear", NoName, [ok |-> TRUE, store |-> clearAllFiles(TheStore)])

StoreGet(filename) ==
  /\ last' = [op |-> "get", file |-> filename, ok |-> hasFile(TheStore, filename),
              data |-> getFile(TheStore, filename)]
  /\ UNCHANGED <<file_store, ops>>
  /\ StoreFrame

StoreTick ==
  /\ Tick
  /\ UNCHANGED <<ring, mem_list, introducer_alive, issued,
                 file_store, client_tracker, sequence_numbers, local_file_cache,
                 pending_gets, get_results, network, caller, ops, dups, last, acked,
                 created, merged, timed_out, ingress, pending_ls, last_replicas, mtx, thread>>

NextStore ==
  \/ \E f \in FileNames, d \in Data \cup {<<>>}, c \in StoreClients : StoreCreate(f, d, c)
  \/ \E f \in FileNames, b \in SomeBlocks : StoreAppend(f, b)
  \/ \E f \in FileNames, bs \in BlockLists : StoreMerge(f, bs)
  \/ \E f \in FileNames : StoreDelete(f)
  \/ \E f \in FileNames, bs \in BlockLists : StoreStoreFile(f, bs)
  \/ StoreClearAll
  \/ \E f \in FileNames : StoreGet(f)
  \/ StoreTick

SpecStore == InitBase /\ [][NextStore]_vars

----------------------------------------------------------------------------
(* Spec: the file plane on four joined nodes.  Every node's ring holds all   *)
(* of Nodes; f1 hashes between n1 and n2, so its replicas are n2, n3, n4,    *)
(* n2 is its coordinator and n1 stores no copy of it.                        *)

Clients == {"n1", "n2"}         \* the nodes at whose CLI commands are typed
ProtocolFiles == {"f1"}         \* the HyDFS names the commands use
CreateSources == {"a"}          \* local file named by create
AppendSources == {"b"}          \* local file named by append
GetTarget == "out"              \* local file named by get

RECURSIVE AddAll(_, _)
AddAll(r, S) ==
  IF S = {} THEN r
  ELSE LET n == CHOOSE x \in S : TRUE IN AddAll(addNode(r, n), S \ {n})

FullRing == AddAll(EmptyMap, Nodes)

(* the fields of a MembershipInfo that the handlers compare; its node_id is  *)
(* the key it is stored or sent under                                        *)
Member(status, incarnation, heartbeat_counter) ==
  [status |-> status, incarnation |-> incarnation,
   heartbeat_counter |-> heartbeat_counter]

Init ==
  /\ ring = FullRing
  /\ mem_list = [n \in Nodes |-> Member("ALIVE", 0, 0)]
  /\ introducer_alive = TRUE
  /\ InitRest

Replicas(filename) == getFileReplicas(ring, filename, ReplicaCount)

(* sendFileMessage: one datagram into the network *)
Msg(type, src, dst, body) == [type |-> type, src |-> src, dst |-> dst, body |-> body]

RECURSIVE SendAll(_, _)
SendAll(net, msgs) ==
  IF msgs = <<>> THEN net ELSE SendAll(net (+) SetToBag({Head(msgs)}), Tail(msgs))

(* the datagrams a loop over `targets` sends, in loop order *)
ToEach(type, src, targets, body) ==
  [i \in 1..Len(targets) |-> Msg(type, src, targets[i], body)]

Others(targets, self) == SelectSeq(targets, LAMBDA r : r # self)

LoggedOnly == {"CREATE_RESPONSE", "APPEND_RESPONSE", "MERGE_RESPONSE", "REPLICATE_ACK"}

(* The four reply types are only logged by their receiver (lines 1158-1205   *)
(* of handleFileMessage).  Receiving one commutes with every other step, so  *)
(* the model delivers such a datagram before it takes any other step: this   *)
(* removes interleavings, and no file, tracker, cache or counter value.      *)
(* In the same way an ingress thread that has sent the datagrams of its      *)
(* handler finishes the handler before any step other than the receipt of a  *)
(* reply elsewhere: what it still writes is read by no other thread's step.  *)
IngressIdle(n) == ingress[n] = <<>>

Settled ==
  /\ \A m \in BagToSet(network) : m.type \notin LoggedOnly
  /\ \A n \in Nodes : IngressIdle(n)

Idle(n) == caller[n].pc = "idle"

CanIssue(n) == n \in Clients /\ Idle(n) /\ ops < MaxOps /\ Settled

ProtoFrame ==
  UNCHANGED <<ring, mem_list, introducer_alive, issued, last_replicas, mtx, thread>>

(* ---- commands typed at the CLI of node n ---- *)

(* A variant of createReturn that reports a send that failed *)
createReturnAllSent(proceeds, sent_count, replica_count) ==
  proceeds /\ sent_count = replica_count

(* lines 262-266 of createFile: once the sends are made the call sleeps      *)
(* 100 ms and returns true; sent_count is counted and never read             *)
createReturn(proceeds, sent_count, replica_count) == proceeds

CreateFile(n, local_filename, hydfs_filename) ==
  /\ CanIssue(n)
  /\ local_filename \in DOMAIN local_file_cache[n]
  /\ LET data == local_file_cache[n][local_filename]
         replicas == Replicas(hydfs_filename)
         we_are_replica == n \in Range(replicas)
         r == createFile(file_store[n], hydfs_filename, data, getClientId(n), now)
         req == [hydfs_filename |-> hydfs_filename, local_filename |-> local_filename,
                 client_id |-> hashNodeId[n], data |-> data]
         proceeds == replicas # <<>> /\ (we_are_replica => r.ok)
         targets == IF proceeds THEN Others(replicas, n) ELSE <<>>
     IN \E refused \in SUBSET Range(targets) :
          \* the sends for which write_to_socket returned no byte count
          LET reached == SelectSeq(targets, LAMBDA t : t \notin refused)
              sent_count == Len(reached) + Cardinality(Range(replicas) \cap {n})
              ok == createReturn(proceeds, sent_count, Len(replicas))
          IN /\ dups + now + Cardinality(refused) <= MaxPerturb
             /\ dups' = dups + Cardinality(refused)
             /\ file_store' = IF replicas # <<>> /\ we_are_replica
                              THEN [file_store EXCEPT ![n] = r.store]
                              ELSE file_store
             /\ network' = SendAll(network, ToEach("CREATE_REQUEST", n, reached, req))
             /\ created' = IF ok
                           THEN created \cup
                                  {[file |-> hydfs_filename, data |-> data,
                                    reached |-> Range(reached) \cup
                                                  (Range(replicas) \cap {n})]}
                           ELSE created
             /\ last' = [op |-> "create", node |-> n, file |-> hydfs_filename, ok |-> ok,
                         before |-> \E c \in created : c.file = hydfs_filename,
                         stores |-> [m \in Nodes |->
                                      getFileMetadata(file_store[m], hydfs_filename)],
                         replicas |-> replicas, reached |-> reached,
                         elapsed_ms |-> IF proceeds THEN CreateSleepMs ELSE 0]
  /\ ops' = ops + 1
  /\ UNCHANGED <<client_tracker, sequence_numbers, local_file_cache, pending_gets,
                 get_results, now, caller, acked, merged, timed_out, ingress, pending_ls>>
  /\ ProtoFrame

getNextSequenceNum(n, hydfs_filename) ==
  IF hydfs_filename \in DOMAIN sequence_numbers[n]
  THEN sequence_numbers[n][hydfs_filename] ELSE 0

AppendFile(n, local_filename, hydfs_filename) ==
  /\ CanIssue(n)
  /\ local_filename \in DOMAIN local_file_cache[n]
  /\ LET data == local_file_cache[n][local_filename]
         sequence_num == getNextSequenceNum(n, hydfs_filename)
         replicas == Replicas(hydfs_filename)
         req == [hydfs_filename |-> hydfs_filename, local_filename |-> local_filename,
                 client_id |-> hashNodeId[n], sequence_num |-> sequence_num,
                 data |-> data]
         ok == replicas # <<>>
     IN /\ sequence_numbers' = [sequence_numbers EXCEPT ![n] =
                                  Put(@, hydfs_filename, sequence_num + 1)]
        /\ network' = IF ok
                      THEN SendAll(network, <<Msg("APPEND_REQUEST", n, replicas[1], req)>>)
                      ELSE network
        /\ acked' = IF ok
                    THEN acked \cup {[client |-> n, file |-> hydfs_filename,
                                      sequence_num |-> sequence_num, data |-> data]}
                    ELSE acked
        /\ last' = [op |-> "append", node |-> n, file |-> hydfs_filename, ok |-> ok]
  /\ ops' = ops + 1
  /\ UNCHANGED <<file_store, client_tracker, local_file_cache, pending_gets,
                 get_results, now, caller, dups, created, merged, timed_out, ingress,
                 pending_ls>>
  /\ ProtoFrame

MergedCount(hydfs_filename) ==
  IF hydfs_filename \in DOMAIN merged THEN merged[hydfs_filename] ELSE 0

MergeFile(n, hydfs_filename) ==
  /\ CanIssue(n)
  /\ LET replicas == Replicas(hydfs_filename)
         req == [hydfs_filename |-> hydfs_filename,
                 is_coordinator |-> replicas # <<>> /\ replicas[1] = n]
     IN /\ network' = IF replicas # <<>>
                      THEN SendAll(network, <<Msg("MERGE_REQUEST", n, replicas[1], req)>>)
                      ELSE network
        /\ merged' = IF replicas # <<>>
                     THEN Put(merged, hydfs_filename, MergedCount(hydfs_filename) + 1)
                     ELSE merged
        /\ last' = [op |-> "merge", node |-> n, file |-> hydfs_filename,
                    ok |-> replicas # <<>>]
  /\ ops' = ops + 1
  /\ UNCHANGED <<file_store, client_tracker, sequence_numbers, local_file_cache,
                 pending_gets, get_results, now, caller, dups, acked, created, timed_out,
                 ingress, pending_ls>>
  /\ ProtoFrame

GetOutcome(n, hydfs_filename, ok, must) ==
  [op |-> "get", node |-> n, file |-> hydfs_filename, ok |-> ok, must |-> must]

(* lines 301-358 of getFile: register the pending get, send GET_REQUEST to   *)
(* the first replica that is not this node.  `call` is not a field of the    *)
(* datagram: it is the number of getFile calls of this node that had timed   *)
(* out when the request was sent, so that a response with a smaller `call`   *)
(* than the node's count answers a call that has timed out.  It is there for *)
(* the properties, and no step of the model reads it to decide anything.     *)
RemoteGet(n, hydfs_filename, local_filename, must, call) ==
  LET replicas == Replicas(hydfs_filename)
      targets == Others(replicas, n)
      req == [hydfs_filename |-> hydfs_filename, local_filename |-> local_filename,
              client_id |-> hashNodeId[n], last_known_sequence |-> 0,
              call |-> call]
  IN IF replicas = <<>>
     THEN /\ caller' = [caller EXCEPT ![n] = [pc |-> "idle"]]
          /\ last' = GetOutcome(n, hydfs_filename, FALSE, must)
          /\ UNCHANGED <<pending_gets, get_results, network>>
     ELSE IF targets = <<>>
     THEN /\ caller' = [caller EXCEPT ![n] = [pc |-> "idle"]]
          /\ last' = GetOutcome(n, hydfs_filename, FALSE, must)
          /\ pending_gets' = [pending_gets EXCEPT ![n] = Erase(@, {hydfs_filename})]
          /\ get_results' = [get_results EXCEPT ![n] = Erase(@, {hydfs_filename})]
          /\ UNCHANGED network
     ELSE /\ caller' = [caller EXCEPT ![n] =
                          [pc |-> "get_wait", hydfs_filename |-> hydfs_filename,
                           local_filename |-> local_filename, must |-> must,
                           call |-> call]]
          /\ last' = [op |-> "get_request", node |-> n, file |-> hydfs_filename]
          /\ pending_gets' = [pending_gets EXCEPT ![n] =
                                Put(@, hydfs_filename, local_filename)]
          /\ get_results' = [get_results EXCEPT ![n] = Erase(@, {hydfs_filename})]
          /\ network' = SendAll(network, <<Msg("GET_REQUEST", n, targets[1], req)>>)

(* getFile up to the local read (lines 276-280), or the remote request when  *)
(* the node stores no copy                                                   *)
GetFile(n, hydfs_filename, local_filename) ==
  /\ CanIssue(n)
  /\ ops' = ops + 1
  /\ LET must == {a \in acked : a.client = n /\ a.file = hydfs_filename}
     IN IF hasFile(file_store[n], hydfs_filename)
        THEN /\ caller' = [caller EXCEPT ![n] =
                             [pc |-> "get_check", hydfs_filename |-> hydfs_filename,
                              local_filename |-> local_filename, must |-> must,
                              call |-> timed_out[n],
                              data |-> getFile(file_store[n], hydfs_filename)]]
             /\ last' = [op |-> "get_local", node |-> n, file |-> hydfs_filename,
                         block_ids |-> PresentIds(file_store[n], hydfs_filename),
                         recorded |-> getClientAppends(client_tracker[n], PositionString(n),
                                                       hydfs_filename)]
             /\ UNCHANGED <<pending_gets, get_results, network>>
        ELSE RemoteGet(n, hydfs_filename, local_filename, must, timed_out[n])
  /\ UNCHANGED <<file_store, client_tracker, sequence_numbers, local_file_cache, now,
                 dups, acked, created, merged, timed_out, ingress, pending_ls>>
  /\ ProtoFrame

(* lines 283-298: the read-my-writes check on the local copy *)
GetLocalCheck(n) ==
  /\ caller[n].pc = "get_check"
  /\ Settled
  /\ LET c == caller[n]
         block_ids == getFileMetadata(file_store[n], c.hydfs_filename).block_ids
     IN IF satisfiesReadMyWrites(client_tracker[n], getClientId(n), c.hydfs_filename,
                                 block_ids)
        THEN /\ local_file_cache' = [local_file_cache EXCEPT ![n] =
                                       Put(@, c.local_filename, c.data)]
             /\ caller' = [caller EXCEPT ![n] = [pc |-> "idle"]]
             /\ last' = GetOutcome(n, c.hydfs_filename, TRUE, c.must)
                          @@ [content |-> c.data, served |-> "local"]
             /\ UNCHANGED <<pending_gets, get_results, network>>
        ELSE /\ RemoteGet(n, c.hydfs_filename, c.local_filename, c.must, c.call)
             /\ UNCHANGED local_file_cache
  /\ UNCHANGED <<file_store, client_tracker, sequence_numbers, now, ops, dups, acked,
                 created, merged, timed_out, ingress, pending_ls>>
  /\ ProtoFrame

(* lines 361-386: the waiter wakes on a result *)
GetReturn(n) ==
  /\ caller[n].pc = "get_wait"
  /\ Settled
  /\ caller[n].hydfs_filename \in DOMAIN get_results[n]
  /\ LET c == caller[n]
         success == get_results[n][c.hydfs_filename]
     IN /\ get_results' = [get_results EXCEPT ![n] = Erase(@, {c.hydfs_filename})]
        /\ pending_gets' = [pending_gets EXCEPT ![n] = Erase(@, {c.hydfs_filename})]
        /\ last' = IF success
                   THEN GetOutcome(n, c.hydfs_filename, TRUE, c.must)
                          @@ [content |-> local_file_cache[n][c.local_filename],
                              served |-> "remote"]
                   ELSE GetOutcome(n, c.hydfs_filename, FALSE, c.must)
  /\ caller' = [caller EXCEPT ![n] = [pc |-> "idle"]]
  /\ UNCHANGED <<file_store, client_tracker, sequence_numbers, local_file_cache,
                 network, now, ops, dups, acked, created, merged, timed_out, ingress,
                 pending_ls>>
  /\ ProtoFrame

(* A variant of GetTimeout that returns without erasing the pending get *)
GetTimeoutKeepsPending(n) ==
  /\ caller[n].pc = "get_wait"
  /\ Settled
  /\ caller[n].hydfs_filename \notin DOMAIN get_results[n]
  /\ last' = GetOutcome(n, caller[n].hydfs_filename, FALSE, caller[n].must)
  /\ caller' = [caller EXCEPT ![n] = [pc |-> "idle"]]
  /\ UNCHANGED <<file_store, client_tracker, sequence_numbers, local_file_cache,
                 pending_gets, get_results, network, now, ops, dups, acked, created,
                 merged, ingress, pending_ls>>
  /\ timed_out' = [timed_out EXCEPT ![n] = @ + 1]
  /\ ProtoFrame

(* lines 366-371: wait_for gives up after 5 s *)
GetTimeout(n) ==
  /\ caller[n].pc = "get_wait"
  /\ Settled
  /\ caller[n].hydfs_filename \notin DOMAIN get_results[n]
  /\ pending_gets' = [pending_gets EXCEPT ![n] = Erase(@, {caller[n].hydfs_filename})]
  /\ last' = GetOutcome(n, caller[n].hydfs_filename, FALSE, caller[n].must)
  /\ timed_out' = [timed_out EXCEPT ![n] = @ + 1]
  /\ caller' = [caller EXCEPT ![n] = [pc |-> "idle"]]
  /\ UNCHANGED <<file_store, client_tracker, sequence_numbers, local_file_cache,
                 get_results, network, now, ops, dups, acked, created, merged, ingress,
                 pending_ls>>
  /\ ProtoFrame

(* ---- handleFileMessage on node m.dst, one datagram per step ---- *)

Take(m) == network (-) SetToBag({m})

Arrives(m, type) == BagIn(m, network) /\ m.type = type /\ Settled

HandleCreateRequest(m) ==
  /\ Arrives(m, "CREATE_REQUEST")
  /\ LET n == m.dst
         req == m.body
         client_id_str == ToString(req.client_id)
         r == createFile(file_store[n], req.hydfs_filename, req.data, client_id_str, now)
         resp == [success |-> r.ok, hydfs_filename |-> req.hydfs_filename]
     IN /\ file_store' = [file_store EXCEPT ![n] = r.store]
        /\ network' = SendAll(Take(m), <<Msg("CREATE_RESPONSE", n, m.src, resp)>>)
        /\ last' = [op |-> "handle", type |-> m.type, node |-> n, ok |-> r.ok]
  /\ UNCHANGED <<client_tracker, sequence_numbers, local_file_cache, pending_gets,
                 get_results, now, caller, ops, dups, acked, created, merged, timed_out,
                 ingress, pending_ls>>
  /\ ProtoFrame

HandleGetRequest(m) ==
  /\ Arrives(m, "GET_REQUEST")
  /\ LET n == m.dst
         req == m.body
         found == hasFile(file_store[n], req.hydfs_filename)
         resp == IF found
                 THEN [success |-> TRUE,
                       metadata |-> getFileMetadata(file_store[n], req.hydfs_filename),
                       blocks |-> getFileBlocks(file_store[n], req.hydfs_filename),
                       call |-> req.call]
                 ELSE [success |-> FALSE, metadata |-> NoMetadata, blocks |-> <<>>,
                       call |-> req.call]
     IN /\ network' = SendAll(Take(m), <<Msg("GET_RESPONSE", n, m.src, resp)>>)
        /\ last' = [op |-> "serve_get", node |-> n, client |-> m.src,
                    file |-> req.hydfs_filename, ok |-> resp.success,
                    block_ids |-> resp.metadata.block_ids,
                    recorded |-> getClientAppends(client_tracker[n],
                                                  ToString(req.client_id),
                                                  req.hydfs_filename)]
  /\ UNCHANGED <<file_store, client_tracker, sequence_numbers, local_file_cache,
                 pending_gets, get_results, now, caller, ops, dups, acked, created, merged,
                 timed_out, ingress, pending_ls>>
  /\ ProtoFrame

(* handleAppendRequest up to the return of replicateBlock (lines 803-850) *)
HandleAppendRequest(m) ==
  /\ Arrives(m, "APPEND_REQUEST")
  /\ LET n == m.dst
         req == m.body
         block == FileBlock(ToString(req.client_id), req.sequence_num, now, req.data)
         r == appendBlock(file_store[n], req.hydfs_filename, block, now)
         resp == [success |-> r.ok, block_id |-> block.block_id]
         replicas == Replicas(req.hydfs_filename)
         rep == [hydfs_filename |-> req.hydfs_filename, block |-> block]
     IN /\ file_store' = [file_store EXCEPT ![n] = r.store]
        /\ network' =
             SendAll(Take(m),
                     <<Msg("APPEND_RESPONSE", n, m.src, resp)>>
                       \o (IF r.ok
                           THEN ToEach("REPLICATE_BLOCK", n, Others(replicas, n), rep)
                           ELSE <<>>))
        /\ ingress' =
             IF r.ok
             THEN [ingress EXCEPT ![n] =
                     <<[client_id |-> block.client_id,
                        hydfs_filename |-> req.hydfs_filename,
                        block_id |-> block.block_id]>>]
             ELSE ingress
        /\ last' = [op |-> "handle", type |-> m.type, node |-> n, ok |-> r.ok]
  /\ UNCHANGED <<client_tracker, sequence_numbers, local_file_cache, pending_gets,
                 get_results, now, caller, ops, dups, acked, created, merged,
                 timed_out, pending_ls>>
  /\ ProtoFrame

(* line 852 of handleAppendRequest: the append enters the ClientTracker after *)
(* APPEND_RESPONSE and the REPLICATE_BLOCKs have been handed to the socket    *)
HandleAppendRecord(n) ==
  /\ ~IngressIdle(n)
  /\ LET e == Head(ingress[n])
     IN client_tracker' = [client_tracker EXCEPT ![n] =
                            recordAppend(@, e.client_id, e.hydfs_filename, e.block_id)]
  /\ ingress' = [ingress EXCEPT ![n] = Tail(@)]
  /\ UNCHANGED <<file_store, sequence_numbers, local_file_cache, pending_gets,
                 get_results, network, now, caller, ops, dups, last, acked, created,
                 merged, timed_out, pending_ls>>
  /\ ProtoFrame

HandleMergeRequest(m) ==
  /\ Arrives(m, "MERGE_REQUEST")
  /\ LET n == m.dst
         req == m.body
         resp == [success |-> TRUE, hydfs_filename |-> req.hydfs_filename,
                  new_version |-> getFileMetadata(file_store[n], req.hydfs_filename).version]
     IN /\ network' = SendAll(Take(m), <<Msg("MERGE_RESPONSE", n, m.src, resp)>>)
        /\ last' = [op |-> "handle", type |-> m.type, node |-> n, ok |-> TRUE,
                    file |-> req.hydfs_filename, new_version |-> resp.new_version,
                    versions |-> [r \in Nodes |->
                                   getFileMetadata(file_store[r], req.hydfs_filename).version]]
  /\ UNCHANGED <<file_store, client_tracker, sequence_numbers, local_file_cache,
                 pending_gets, get_results, now, caller, ops, dups, acked, created, merged,
                 timed_out, ingress, pending_ls>>
  /\ ProtoFrame

HandleReplicateBlock(m) ==
  /\ Arrives(m, "REPLICATE_BLOCK")
  /\ LET n == m.dst
         msg == m.body
         a == appendBlock(file_store[n], msg.hydfs_filename, msg.block, now)
         r == IF a.ok THEN a
              ELSE createFile(file_store[n], msg.hydfs_filename, msg.block.data,
                              msg.block.client_id, now)
     IN /\ file_store' = [file_store EXCEPT ![n] = r.store]
        /\ network' = SendAll(Take(m), <<Msg("REPLICATE_ACK", n, m.src, msg)>>)
        /\ last' = [op |-> "handle", type |-> m.type, node |-> n, ok |-> r.ok,
                    file |-> msg.hydfs_filename, block |-> msg.block, from |-> m.src,
                    held |-> hasFile(file_store[n], msg.hydfs_filename),
                    before |-> getFileMetadata(file_store[n], msg.hydfs_filename)]
  /\ UNCHANGED <<client_tracker, sequence_numbers, local_file_cache, pending_gets,
                 get_results, now, caller, ops, dups, acked, created, merged, timed_out,
                 ingress, pending_ls>>
  /\ ProtoFrame

(* The block loop of GetFileResponse::deserialize.  FileBlock::serialize      *)
(* writes `size` as a size_t, 8 bytes; the loop steps over it as 4 bytes     *)
(* (line 336), so the second block is read 4 bytes early: its client_id      *)
(* length is taken from the upper half of the block's 64-bit id, a hash, and *)
(* FileBlock::deserialize returns at line 67 of file_block.cpp with the      *)
(* block's data empty whenever that half exceeds the bytes left in the 8 KB  *)
(* datagram, which the model takes it to do.  The loop's offset then leaves  *)
(* the buffer and the loop ends at line 299.                                 *)
TornBlock ==
  [block_id |-> <<"", 0, 0>>, client_id |-> "", sequence_num |-> 0,
   timestamp |-> 0, data |-> <<>>, size |-> 0]

deserializeBlocks(blocks) ==
  IF Len(blocks) <= 1 THEN blocks ELSE <<blocks[1], TornBlock>>

(* case GET_RESPONSE of handleFileMessage, then handleGetResponse *)
HandleGetResponse(m) ==
  /\ Arrives(m, "GET_RESPONSE")
  /\ LET n == m.dst
         resp == m.body
         name == resp.metadata.hydfs_filename
         pending == name \in DOMAIN pending_gets[n] /\ pending_gets[n][name] # NoName
         rmw == satisfiesReadMyWrites(client_tracker[n], getClientId(n), name,
                                      resp.metadata.block_ids)
         blocks == deserializeBlocks(resp.blocks)
         file_data == Flatten([i \in 1..Len(blocks) |-> blocks[i].data])
     IN /\ network' = Take(m)
        /\ get_results' =
             IF pending
             THEN [get_results EXCEPT ![n] = Put(@, name, resp.success /\ rmw)]
             ELSE get_results
        /\ local_file_cache' =
             IF pending /\ resp.success /\ rmw
             THEN [local_file_cache EXCEPT ![n] = Put(@, pending_gets[n][name], file_data)]
             ELSE local_file_cache
        /\ last' = [op |-> "handle", type |-> m.type, node |-> n, ok |-> pending,
                    success |-> resp.success, waiting |-> DOMAIN pending_gets[n],
                    call |-> resp.call, file |-> name]
  /\ UNCHANGED <<file_store, client_tracker, sequence_numbers, pending_gets, now,
                 caller, ops, dups, acked, created, merged, timed_out, ingress, pending_ls>>
  /\ ProtoFrame

(* the cases of handleFileMessage that only log what arrived *)
HandleLogged(m) ==
  /\ BagIn(m, network)
  /\ m.type \in LoggedOnly
  /\ IngressIdle(m.dst)
  /\ network' = Take(m)
  /\ last' = [op |-> "logged", type |-> m.type, node |-> m.dst,
              ok |-> IF m.type = "REPLICATE_ACK" THEN TRUE ELSE m.body.success,
              body |-> m.body]
  /\ UNCHANGED <<file_store, client_tracker, sequence_numbers, local_file_cache,
                 pending_gets, get_results, now, caller, ops, dups, acked, created, merged,
                 timed_out, ingress, pending_ls>>
  /\ ProtoFrame

(* UDP may deliver a datagram twice *)
Duplicate(m) ==
  /\ BagIn(m, network)
  /\ Settled
  /\ dups + now < MaxPerturb
  /\ dups' = dups + 1
  /\ network' = network (+) SetToBag({m})
  /\ UNCHANGED <<file_store, client_tracker, sequence_numbers, local_file_cache,
                 pending_gets, get_results, now, caller, ops, last, acked, created, merged,
                 timed_out, ingress, pending_ls>>
  /\ ProtoFrame

ClockTick ==
  /\ Tick
  /\ Settled
  /\ dups + now < MaxPerturb
  /\ UNCHANGED <<ring, mem_list, introducer_alive, issued,
                 file_store, client_tracker, sequence_numbers, local_file_cache,
                 pending_gets, get_results, network, caller, ops, dups, last, acked,
                 created, merged, timed_out, ingress, pending_ls, last_replicas, mtx, thread>>

InFlight == BagToSet(network)

Next ==
  \/ \E n \in Nodes, l \in CreateSources, f \in ProtocolFiles : CreateFile(n, l, f)
  \/ \E n \in Nodes, l \in AppendSources, f \in ProtocolFiles : AppendFile(n, l, f)
  \/ \E n \in Nodes, f \in ProtocolFiles : GetFile(n, f, GetTarget)
  \/ \E n \in Nodes, f \in ProtocolFiles : MergeFile(n, f)
  \/ \E n \in Nodes : GetLocalCheck(n)
  \/ \E n \in Nodes : GetReturn(n)
  \/ \E n \in Nodes : GetTimeout(n)
  \/ \E m \in InFlight : HandleCreateRequest(m)
  \/ \E m \in InFlight : HandleGetRequest(m)
  \/ \E m \in InFlight : HandleAppendRequest(m)
  \/ \E n \in Nodes : HandleAppendRecord(n)
  \/ \E m \in InFlight : HandleMergeRequest(m)
  \/ \E m \in InFlight : HandleReplicateBlock(m)
  \/ \E m \in InFlight : HandleGetResponse(m)
  \/ \E m \in InFlight : HandleLogged(m)
  \/ \E m \in InFlight : Duplicate(m)
  \/ ClockTick

Spec == Init /\ [][Next]_vars

(* SpecGet: the create and get commands of Spec with the threads scheduled:  *)
(* the ingress thread of a node loops on recvfrom, so a reply that has       *)
(* arrived is logged, and a CLI thread blocked in get_cv_.wait_for is woken  *)
(* by a notify or by the end of its 5 s.  Nothing obliges the network to     *)
(* deliver a request or a GET_RESPONSE.                                      *)
NextGet ==
  \/ \E n \in Nodes, l \in CreateSources, f \in ProtocolFiles : CreateFile(n, l, f)
  \/ \E n \in Nodes, f \in ProtocolFiles : GetFile(n, f, GetTarget)
  \/ \E n \in Nodes : GetLocalCheck(n)
  \/ \E n \in Nodes : GetReturn(n)
  \/ \E n \in Nodes : GetTimeout(n)
  \/ \E m \in InFlight : HandleCreateRequest(m)
  \/ \E m \in InFlight : HandleGetRequest(m)
  \/ \E m \in InFlight : HandleGetResponse(m)
  \/ \E m \in InFlight : HandleLogged(m)
  \/ \E m \in InFlight : Duplicate(m)
  \/ ClockTick

SpecGet ==
  /\ Init
  /\ [][NextGet]_vars
  /\ WF_vars(\E m \in InFlight : HandleLogged(m))
  /\ \A n \in Clients : WF_vars(GetReturn(n) \/ GetTimeout(n))

----------------------------------------------------------------------------
(* SpecLs: the ls command (listFileLocations) next to create, on the ring of *)
(* Spec.  A response is stored with the node that sent it in `from`, which   *)
(* the datagram does not carry and no step reads: it is there for the        *)
(* properties.                                                               *)

LsFrame ==
  /\ UNCHANGED <<file_store, client_tracker, sequence_numbers, local_file_cache,
                 pending_gets, get_results, now, dups, acked, created, merged,
                 timed_out, ingress>>
  /\ ProtoFrame

(* listFileLocations up to the wait (lines 484-516) *)
LsFile(n, hydfs_filename) ==
  /\ CanIssue(n)
  /\ ops < MaxLsOps
  /\ LET replicas == Replicas(hydfs_filename)
         state == [hydfs_filename |-> hydfs_filename, expected_replicas |-> replicas,
                   responses |-> EmptyMap]
         req == [hydfs_filename |-> hydfs_filename, requester_id |-> n]
     IN /\ pending_ls' = [pending_ls EXCEPT ![n] = Put(@, hydfs_filename, state)]
        /\ network' = SendAll(network, ToEach("FILE_EXISTS_REQUEST", n, replicas, req))
        /\ caller' = [caller EXCEPT ![n] =
                        [pc |-> "ls_wait", hydfs_filename |-> hydfs_filename,
                         replicas |-> replicas]]
  /\ ops' = ops + 1
  /\ last' = [op |-> "ls_request", node |-> n, file |-> hydfs_filename]
  /\ LsFrame

HandleFileExistsRequest(m) ==
  /\ Arrives(m, "FILE_EXISTS_REQUEST")
  /\ LET n == m.dst
         req == m.body
         exists == hasFile(file_store[n], req.hydfs_filename)
         meta == getFileMetadata(file_store[n], req.hydfs_filename)
         resp == [hydfs_filename |-> req.hydfs_filename, exists |-> exists,
                  file_size |-> IF exists THEN meta.total_size ELSE 0,
                  version |-> IF exists THEN meta.last_modified_timestamp ELSE 0,
                  from |-> n]
     IN /\ network' = SendAll(Take(m), <<Msg("FILE_EXISTS_RESPONSE", n, m.src, resp)>>)
        /\ last' = [op |-> "handle", type |-> m.type, node |-> n, ok |-> exists]
  /\ UNCHANGED <<caller, ops, pending_ls>>
  /\ LsFrame

(* the first expected replica that has no stored response yet gets this one *)
HandleFileExistsResponse(m) ==
  /\ Arrives(m, "FILE_EXISTS_RESPONSE")
  /\ LET n == m.dst
         resp == m.body
         name == resp.hydfs_filename
         pending == name \in DOMAIN pending_ls[n]
         state == pending_ls[n][name]
         missing == SelectSeq(state.expected_replicas,
                              LAMBDA r : r \notin DOMAIN state.responses)
     IN /\ pending_ls' =
             IF pending /\ missing # <<>>
             THEN [pending_ls EXCEPT ![n] =
                     Put(@, name, [state EXCEPT !.responses = Put(@, missing[1], resp)])]
             ELSE pending_ls
        /\ last' = [op |-> "handle", type |-> m.type, node |-> n, ok |-> pending]
  /\ network' = Take(m)
  /\ UNCHANGED <<caller, ops>>
  /\ LsFrame

(* lines 518-573: ls_cv_.wait_for ends, with every response or after 3 s,    *)
(* and the status of each replica is printed                                 *)
LsReturn(n) ==
  /\ caller[n].pc = "ls_wait"
  /\ Settled
  /\ LET c == caller[n]
         responses == pending_ls[n][c.hydfs_filename].responses
         status == [r \in Range(c.replicas) |->
                     IF r \in DOMAIN responses
                     THEN IF responses[r].exists THEN "HAS" ELSE "NO FILE"
                     ELSE "NO RESPONSE"]
     IN /\ last' = [op |-> "ls", node |-> n, file |-> c.hydfs_filename,
                    replicas |-> c.replicas, status |-> status, responses |-> responses,
                    got_all_responses |->
                      Cardinality(DOMAIN responses) >= Len(c.replicas)]
        /\ pending_ls' = [pending_ls EXCEPT ![n] = Erase(@, {c.hydfs_filename})]
  /\ caller' = [caller EXCEPT ![n] = [pc |-> "idle"]]
  /\ UNCHANGED <<network, ops>>
  /\ LsFrame

NextLs ==
  \/ \E n \in Nodes, l \in CreateSources, f \in ProtocolFiles :
       ops < MaxLsOps /\ CreateFile(n, l, f)
  \/ \E n \in Nodes, f \in ProtocolFiles : LsFile(n, f)
  \/ \E n \in Nodes : LsReturn(n)
  \/ \E m \in InFlight : HandleCreateRequest(m)
  \/ \E m \in InFlight : HandleFileExistsRequest(m)
  \/ \E m \in InFlight : HandleFileExistsResponse(m)
  \/ \E m \in InFlight : HandleLogged(m)

SpecLs == Init /\ [][NextLs]_vars

----------------------------------------------------------------------------
(* SpecConc: threads calling createFile, appendBlock and getFile on the      *)
(* FileStore of one node, one step per statement that touches files, blocks  *)
(* or mtx.  A read of the maps that overlaps another thread's write section  *)
(* is a data race: its outcome is any value.                                 *)

ConcThreads == {"t1", "t2"}

IdleThread == [pc |-> "idle"]

Th(t) == IF t \in DOMAIN thread THEN thread[t] ELSE IdleThread

(* std::unique_lock<std::shared_mutex> lock(mtx) can be taken *)
CanLockUnique(m) == m.writer = "none" /\ m.readers = {}

CanLockAlways(m) == TRUE

(* std::shared_lock<std::shared_mutex> lock(mtx) can be taken *)
CanLockShared(m) == m.writer = "none"

WriteSection == {"c_find", "c_blocks", "c_files", "c_ret",
                 "a_find", "a_blocks", "a_ids", "a_size", "a_version", "a_ret"}

(* another thread is between taking and releasing its unique_lock *)
Racy(t) == \E u \in ConcThreads \ {t} : Th(u).pc \in WriteSection

Unlocked(t) == [writer |-> IF mtx.writer = t THEN "none" ELSE mtx.writer,
                readers |-> mtx.readers \ {t}]

ConcFrame ==
  UNCHANGED <<ring, mem_list, introducer_alive, issued,
              client_tracker, sequence_numbers, local_file_cache, pending_gets,
              get_results, network, now, caller, dups, last, acked, created, merged,
              timed_out, ingress, pending_ls,
              last_replicas>>

ConcCall(t, locals) ==
  /\ Th(t).pc = "idle"
  /\ thread' = Put(thread, t, locals)
  /\ UNCHANGED <<file_store, mtx>>
  /\ ConcFrame

ConcCallCreate(t, filename, data, client_id) ==
  /\ ops < MaxConcCalls
  /\ ops' = ops + 1
  /\ ConcCall(t, [pc |-> "c_lock", op |-> "create", filename |-> filename,
                  data |-> data, client_id |-> client_id])

ConcCallAppend(t, filename, block) ==
  /\ ops < MaxConcCalls
  /\ ops' = ops + 1
  /\ ConcCall(t, [pc |-> "a_lock", op |-> "append", filename |-> filename,
                  block |-> block])

ConcCallGet(t, filename) ==
  /\ UNCHANGED ops
  /\ ConcCall(t, [pc |-> "g_lock", op |-> "get", filename |-> filename,
                  i |-> 1, file_data |-> <<>>, missing |-> FALSE])

(* file_store.cpp lines 39 and 82 *)
ConcLockUnique(t) ==
  /\ Th(t).pc \in {"c_lock", "a_lock"}
  /\ CanLockUnique(mtx)
  /\ mtx' = [mtx EXCEPT !.writer = t]
  /\ thread' = Put(thread, t, [Th(t) EXCEPT !.pc = IF @ = "c_lock" THEN "c_find" ELSE "a_find"])
  /\ UNCHANGED <<file_store, ops>>
  /\ ConcFrame

(* line 108 *)
ConcLockShared(t) ==
  /\ Th(t).pc = "g_lock"
  /\ CanLockShared(mtx)
  /\ mtx' = [mtx EXCEPT !.readers = @ \cup {t}]
  /\ thread' = Put(thread, t, [Th(t) EXCEPT !.pc = "g_find"])
  /\ UNCHANGED <<file_store, ops>>
  /\ ConcFrame

(* lines 42-58: the name is looked up; a new file's metadata is built *)
ConcCreateFind(t) ==
  /\ Th(t).pc = "c_find"
  /\ IF Th(t).filename \in DOMAIN file_store[StoreNode].files
     THEN /\ thread' = Put(thread, t, IdleThread)
          /\ mtx' = Unlocked(t)
     ELSE /\ thread' = Put(thread, t, [pc |-> "c_blocks", op |-> "create",
                                       filename |-> Th(t).filename, data |-> Th(t).data,
                                       client_id |-> Th(t).client_id, timestamp |-> now])
          /\ UNCHANGED mtx
  /\ UNCHANGED <<file_store, ops>>
  /\ ConcFrame

(* lines 61-73: blocks[block.block_id] = block *)
ConcCreateBlocks(t) ==
  /\ Th(t).pc = "c_blocks"
  /\ LET c == Th(t)
         block == FileBlock(c.client_id, 0, c.timestamp, c.data)
     IN file_store' = [file_store EXCEPT ![StoreNode].blocks =
                         IF c.data # <<>> THEN Put(@, block.block_id, block) ELSE @]
  /\ thread' = Put(thread, t, [Th(t) EXCEPT !.pc = "c_files"])
  /\ UNCHANGED <<mtx, ops>>
  /\ ConcFrame

(* line 75: files[filename] = metadata *)
ConcCreateFiles(t) ==
  /\ Th(t).pc = "c_files"
  /\ LET c == Th(t)
         whole == createFile(EmptyStore, c.filename, c.data, c.client_id, c.timestamp)
     IN file_store' = [file_store EXCEPT ![StoreNode].files =
                         Put(@, c.filename, whole.store.files[c.filename])]
  /\ thread' = Put(thread, t, [Th(t) EXCEPT !.pc = "c_ret"])
  /\ UNCHANGED <<mtx, ops>>
  /\ ConcFrame

(* lines 85-88 *)
ConcAppendFind(t) ==
  /\ Th(t).pc = "a_find"
  /\ IF Th(t).filename \notin DOMAIN file_store[StoreNode].files
     THEN /\ thread' = Put(thread, t, IdleThread)
          /\ mtx' = Unlocked(t)
     ELSE /\ thread' = Put(thread, t, [Th(t) EXCEPT !.pc = "a_blocks"])
          /\ UNCHANGED mtx
  /\ UNCHANGED <<file_store, ops>>
  /\ ConcFrame

(* line 91 *)
ConcAppendBlocks(t) ==
  /\ Th(t).pc = "a_blocks"
  /\ file_store' = [file_store EXCEPT ![StoreNode].blocks =
                      Put(@, Th(t).block.block_id, Th(t).block)]
  /\ thread' = Put(thread, t, [Th(t) EXCEPT !.pc = "a_ids"])
  /\ UNCHANGED <<mtx, ops>>
  /\ ConcFrame

(* line 92 *)
ConcAppendIds(t) ==
  /\ Th(t).pc = "a_ids"
  /\ file_store' = [file_store EXCEPT ![StoreNode].files[Th(t).filename].block_ids =
                      Append(@, Th(t).block.block_id)]
  /\ thread' = Put(thread, t, [Th(t) EXCEPT !.pc = "a_size"])
  /\ UNCHANGED <<mtx, ops>>
  /\ ConcFrame

(* line 93 *)
ConcAppendSize(t) ==
  /\ Th(t).pc = "a_size"
  /\ file_store' = [file_store EXCEPT ![StoreNode].files[Th(t).filename].total_size =
                      @ + Th(t).block.size]
  /\ thread' = Put(thread, t, [Th(t) EXCEPT !.pc = "a_version"])
  /\ UNCHANGED <<mtx, ops>>
  /\ ConcFrame

(* lines 95-99 *)
ConcAppendVersion(t) ==
  /\ Th(t).pc = "a_version"
  /\ file_store' = [file_store EXCEPT
                      ![StoreNode].files[Th(t).filename].last_modified_timestamp = now,
                      ![StoreNode].files[Th(t).filename].version = @ + 1]
  /\ thread' = Put(thread, t, [Th(t) EXCEPT !.pc = "a_ret"])
  /\ UNCHANGED <<mtx, ops>>
  /\ ConcFrame

(* lines 110-117 *)
ConcGetFind(t) ==
  /\ Th(t).pc = "g_find"
  /\ LET exists == Th(t).filename \in DOMAIN file_store[StoreNode].files
     IN \E found \in (IF Racy(t) THEN BOOLEAN ELSE {exists}) :
          IF found /\ exists
          THEN /\ thread' = Put(thread, t, [Th(t) EXCEPT !.pc = "g_next"])
               /\ UNCHANGED mtx
          ELSE IF found
          THEN /\ \E torn \in BOOLEAN :
                    thread' = Put(thread, t, [Th(t) EXCEPT !.pc = "g_ret", !.missing = torn])
               /\ UNCHANGED mtx
          ELSE /\ thread' = Put(thread, t, IdleThread)
               /\ mtx' = Unlocked(t)
  /\ UNCHANGED <<file_store, ops>>
  /\ ConcFrame

(* lines 119-125: one turn of the loop over block_ids *)
ConcGetNext(t) ==
  /\ Th(t).pc = "g_next"
  /\ LET g == Th(t)
         s == file_store[StoreNode]
         ids == getFileMetadata(s, g.filename).block_ids
     IN IF g.i > Len(ids)
        THEN thread' = Put(thread, t, [g EXCEPT !.pc = "g_ret"])
        ELSE LET stored == ids[g.i] \in DOMAIN s.blocks
             IN \E present \in (IF Racy(t) THEN BOOLEAN ELSE {stored}) :
                  thread' = Put(thread, t,
                    [g EXCEPT !.i = @ + 1,
                              !.file_data = IF present /\ stored
                                            THEN @ \o s.blocks[ids[g.i]].data ELSE @,
                              !.missing = @ \/ ~present])
  /\ UNCHANGED <<file_store, mtx, ops>>
  /\ ConcFrame

(* the return statement: the lock is released *)
ConcReturn(t) ==
  /\ Th(t).pc \in {"c_ret", "a_ret", "g_ret"}
  /\ mtx' = Unlocked(t)
  /\ thread' = Put(thread, t, IdleThread)
  /\ UNCHANGED <<file_store, ops>>
  /\ ConcFrame

ConcTick ==
  /\ Tick
  /\ UNCHANGED <<ring, mem_list, introducer_alive, issued,
                 file_store, client_tracker, sequence_numbers, local_file_cache,
                 pending_gets, get_results, network, caller, ops, dups, last, acked,
                 created, merged, timed_out, ingress, pending_ls, last_replicas, mtx, thread>>

NextConc ==
  \/ \E t \in ConcThreads, f \in ProtocolFiles, d \in Data \cup {<<>>}, c \in StoreClients :
       ConcCallCreate(t, f, d, c)
  \/ \E t \in ConcThreads, f \in ProtocolFiles, b \in SomeBlocks : ConcCallAppend(t, f, b)
  \/ \E t \in ConcThreads, f \in ProtocolFiles : ConcCallGet(t, f)
  \/ \E t \in ConcThreads : ConcLockUnique(t)
  \/ \E t \in ConcThreads : ConcLockShared(t)
  \/ \E t \in ConcThreads : ConcCreateFind(t)
  \/ \E t \in ConcThreads : ConcCreateBlocks(t)
  \/ \E t \in ConcThreads : ConcCreateFiles(t)
  \/ \E t \in ConcThreads : ConcAppendFind(t)
  \/ \E t \in ConcThreads : ConcAppendBlocks(t)
  \/ \E t \in ConcThreads : ConcAppendIds(t)
  \/ \E t \in ConcThreads : ConcAppendSize(t)
  \/ \E t \in ConcThreads : ConcAppendVersion(t)
  \/ \E t \in ConcThreads : ConcGetFind(t)
  \/ \E t \in ConcThreads : ConcGetNext(t)
  \/ \E t \in ConcThreads : ConcReturn(t)
  \/ ConcTick

SpecConc == InitBase /\ [][NextConc]_vars

----------------------------------------------------------------------------
(* SpecPair: getFile called by two threads of one node, on the ring of Spec. *)
(* The CLI of main() issues one command at a time; the two callers stand for *)
(* any two users of the public FileOperationsHandler::getFile, whose tables  *)
(* are guarded by pending_gets_mtx_ for use from several threads.  A         *)
(* GET_REQUEST is tagged with the thread that sent it (`call`), which the    *)
(* datagram does not carry and no step reads.                                *)

PairNode == "n1"

PairLocal == [t \in ConcThreads |-> IF t = "t1" THEN "out1" ELSE "out2"]

PairFrame ==
  UNCHANGED <<ring, mem_list, introducer_alive, issued,
              file_store, client_tracker, sequence_numbers, now, caller, dups,
              acked, created, merged, timed_out, ingress, pending_ls, last_replicas, mtx>>

PairOutcome(t, hydfs_filename, ok) ==
  [op |-> "get", node |-> PairNode, thread |-> t, file |-> hydfs_filename, ok |-> ok]

(* getFile, lines 269-358, on thread t *)
PairGetFile(t, hydfs_filename) ==
  /\ Th(t).pc = "idle"
  /\ ops < MaxPairOps
  /\ Settled
  /\ ops' = ops + 1
  /\ LET n == PairNode
         local_filename == PairLocal[t]
         held == hasFile(file_store[n], hydfs_filename)
         rmw == satisfiesReadMyWrites(
                  client_tracker[n], getClientId(n), hydfs_filename,
                  getFileMetadata(file_store[n], hydfs_filename).block_ids)
         replicas == Replicas(hydfs_filename)
         targets == Others(replicas, n)
         req == [hydfs_filename |-> hydfs_filename, local_filename |-> local_filename,
                 client_id |-> hashNodeId[n], last_known_sequence |-> 0, call |-> t]
     IN IF held /\ rmw
        THEN /\ local_file_cache' =
                  [local_file_cache EXCEPT ![n] =
                     Put(@, local_filename, getFile(file_store[n], hydfs_filename))]
             /\ last' = PairOutcome(t, hydfs_filename, TRUE)
             /\ UNCHANGED <<pending_gets, get_results, network, thread>>
        ELSE IF replicas = <<>>
        THEN /\ last' = PairOutcome(t, hydfs_filename, FALSE)
             /\ UNCHANGED <<pending_gets, get_results, network, thread, local_file_cache>>
        ELSE IF targets = <<>>
        THEN /\ last' = PairOutcome(t, hydfs_filename, FALSE)
             /\ pending_gets' = [pending_gets EXCEPT ![n] = Erase(@, {hydfs_filename})]
             /\ get_results' = [get_results EXCEPT ![n] = Erase(@, {hydfs_filename})]
             /\ UNCHANGED <<network, thread, local_file_cache>>
        ELSE /\ thread' = Put(thread, t, [pc |-> "get_wait",
                                          hydfs_filename |-> hydfs_filename,
                                          local_filename |-> local_filename])
             /\ last' = [op |-> "get_request", node |-> n, thread |-> t,
                         file |-> hydfs_filename]
             /\ pending_gets' = [pending_gets EXCEPT ![n] =
                                   Put(@, hydfs_filename, local_filename)]
             /\ get_results' = [get_results EXCEPT ![n] = Erase(@, {hydfs_filename})]
             /\ network' = SendAll(network, <<Msg("GET_REQUEST", n, targets[1], req)>>)
             /\ UNCHANGED local_file_cache
  /\ PairFrame

(* lines 361-386 on thread t: the wait ends with a result in get_results_ *)
PairGetReturn(t) ==
  /\ Th(t).pc = "get_wait"
  /\ Settled
  /\ Th(t).hydfs_filename \in DOMAIN get_results[PairNode]
  /\ LET n == PairNode
         name == Th(t).hydfs_filename
     IN /\ last' = PairOutcome(t, name, get_results[n][name])
        /\ get_results' = [get_results EXCEPT ![n] = Erase(@, {name})]
        /\ pending_gets' = [pending_gets EXCEPT ![n] = Erase(@, {name})]
  /\ thread' = Put(thread, t, IdleThread)
  /\ UNCHANGED <<local_file_cache, network, ops>>
  /\ PairFrame

(* lines 366-371 on thread t: wait_for gives up after 5 s *)
PairGetTimeout(t) ==
  /\ Th(t).pc = "get_wait"
  /\ Settled
  /\ Th(t).hydfs_filename \notin DOMAIN get_results[PairNode]
  /\ LET n == PairNode
         name == Th(t).hydfs_filename
     IN /\ last' = PairOutcome(t, name, FALSE) @@ [timeout |-> TRUE]
        /\ pending_gets' = [pending_gets EXCEPT ![n] = Erase(@, {name})]
  /\ thread' = Put(thread, t, IdleThread)
  /\ UNCHANGED <<get_results, local_file_cache, network, ops>>
  /\ PairFrame

NextPair ==
  \/ \E n \in Clients, l \in CreateSources, f \in ProtocolFiles :
       ops < MaxPairOps /\ CreateFile(n, l, f)
  \/ \E t \in ConcThreads, f \in ProtocolFiles : PairGetFile(t, f)
  \/ \E t \in ConcThreads : PairGetReturn(t)
  \/ \E t \in ConcThreads : PairGetTimeout(t)
  \/ \E m \in InFlight : HandleCreateRequest(m)
  \/ \E m \in InFlight : HandleGetRequest(m)
  \/ \E m \in InFlight : HandleGetResponse(m)
  \/ \E m \in InFlight : HandleLogged(m)

SpecPair == Init /\ [][NextPair]_vars

----------------------------------------------------------------------------
(* Wire formats.  A buffer is the map from the byte offset of every field    *)
(* written to a cell: its kind, its width in bytes and what was written.     *)
(* Kind "b" holds the bytes themselves, kind "s" the characters of a string, *)
(* kind "id" a 64-bit std::hash value.  A byte never written is zero, as in  *)
(* the receive buffer that Node::handleIncoming clears before every read.    *)
(* `base' is the pointer arithmetic buffer + offset of a caller.             *)

HostSize == 33       \* sizeof(NodeId::host)
PortSize == 6        \* sizeof(NodeId::port)
BUFFER_LEN == 4096   \* UDPSocketConnection::BUFFER_LEN
OpaqueByte == 127    \* a byte of a string or of a hash, read as a number
Huge == 2147483647   \* stands for every 64-bit value of 2^31 or more

NodeIdSize == HostSize + PortSize + 4

ZeroBuffer == EmptyMap

ZeroWord == <<0, 0, 0, 0>>

Cell(k, w, v) == [k |-> k, w |-> w, v |-> v]

Bytes(v) == Cell("b", Len(v), v)

Chars(w, str) == Cell("s", w, str)

Hash(id) == Cell("id", 8, id)

(* memcpy(buffer + offset, src, cell.w); nothing is written for a width of 0 *)
Write(buffer, offset, cell) == IF cell.w = 0 THEN buffer ELSE Put(buffer, offset, cell)

(* a buffer an earlier use left something in *)
Scratch == Write(ZeroBuffer, 0, Bytes(<<9>>))

(* memset(buffer, 0, n) *)
Zeroed(buffer, n) == [o \in {p \in DOMAIN buffer : p >= n} |-> buffer[o]]

Covering(buffer, p) == {c \in DOMAIN buffer : c <= p /\ p < c + buffer[c].w}

ByteAt(buffer, p) ==
  LET cs == Covering(buffer, p)
  IN IF cs = {} THEN 0
     ELSE LET c == CHOOSE x \in cs : TRUE
          IN IF buffer[c].k = "b" THEN buffer[c].v[p - c + 1] ELSE OpaqueByte

(* memcpy(&v, buffer + offset, w) into an integer or a vector<char> *)
ReadBytes(buffer, offset, w) == [i \in 1..w |-> ByteAt(buffer, offset + i - 1)]

Garbled == "?"

(* the w characters at `offset': the string written there, or bytes that     *)
(* are no string any sender wrote                                            *)
ReadChars(buffer, offset, w) ==
  IF w = 0 THEN ""
  ELSE IF offset \in DOMAIN buffer /\ buffer[offset].k = "s" /\ buffer[offset].w = w
       THEN buffer[offset].v
       ELSE Garbled

TornId == <<"", 0, 0>>

(* the 8 bytes at `offset' as a block or file id *)
ReadHash(buffer, offset) ==
  IF offset \in DOMAIN buffer /\ buffer[offset].k = "id" THEN buffer[offset].v ELSE TornId

(* the first `cut' bytes of a buffer, received into a cleared buffer *)
Truncate(buffer, cut) ==
  [o \in {p \in DOMAIN buffer : p < cut} |->
     IF o + buffer[o].w <= cut THEN buffer[o]
     ELSE IF buffer[o].k = "b"
          THEN Bytes([i \in 1..buffer[o].w |-> IF o + i - 1 < cut THEN buffer[o].v[i] ELSE 0])
          ELSE Chars(cut - o, Garbled)]

(* a uint32_t in network byte order, most significant byte first *)
htonl(v) == <<(v \div 16777216) % 256, (v \div 65536) % 256, (v \div 256) % 256, v % 256>>

ntohl(b) == ((b[1] * 256 + b[2]) * 256 + b[3]) * 256 + b[4]

htobe64(v) == ZeroWord \o htonl(v)

be64toh(b) == IF SubSeq(b, 1, 4) = ZeroWord THEN ntohl(SubSeq(b, 5, 8)) ELSE Huge

(* integers as memcpy leaves them on the little-endian hosts of the cluster *)
HostWord(v) == <<v % 256, (v \div 256) % 256, (v \div 65536) % 256, (v \div 16777216) % 256>>

FromHostWord(b) == ((b[4] * 256 + b[3]) * 256 + b[2]) * 256 + b[1]

HostLong(v) == HostWord(v) \o ZeroWord

FromHostLong(b) == IF SubSeq(b, 5, 8) = ZeroWord THEN FromHostWord(SubSeq(b, 1, 4)) ELSE Huge

Thrown == [throws |-> TRUE]

(* ---- message.cpp: the membership plane ---- *)

NodeIdSerialize(node, buffer, base, bufferSize) ==
  IF bufferSize < NodeIdSize
  THEN [throws |-> TRUE, buffer |-> buffer, written |-> 0]
  ELSE LET b1 == Write(buffer, base, Chars(HostSize, node.host))
           b2 == Write(b1, base + HostSize, Chars(PortSize, node.port))
           b3 == Write(b2, base + HostSize + PortSize, Bytes(htonl(node.time)))
       IN [throws |-> FALSE, buffer |-> b3, written |-> NodeIdSize]

NodeIdDeserialize(buffer, base, bufferSize) ==
  IF bufferSize < NodeIdSize
  THEN Thrown
  ELSE [throws |-> FALSE,
        node |-> [host |-> ReadChars(buffer, base, HostSize),
                  port |-> ReadChars(buffer, base + HostSize, PortSize),
                  time |-> ntohl(ReadBytes(buffer, base + HostSize + PortSize, 4))]]

MembershipSize(include_heartbeat) ==
  NodeIdSize + 1 + 1 + 4 + (IF include_heartbeat THEN 4 ELSE 0)

(* the needed_size of a MembershipInfo::serialize that forgets the optional *)
(* heartbeat counter                                                         *)
MembershipInfoNeededNoHeartbeat(include_heartbeat) == MembershipSize(FALSE)

MembershipInfoNeeded(include_heartbeat) == MembershipSize(include_heartbeat)

MembershipInfoSerialize(info, buffer, base, buffer_size, include_heartbeat) ==
  IF MembershipInfoNeeded(include_heartbeat) > buffer_size
  THEN [throws |-> TRUE, buffer |-> buffer, written |-> 0]
  ELSE LET n == NodeIdSerialize(info.node_id, buffer, base, buffer_size)
       IN IF n.throws
          THEN n
          ELSE LET o1 == n.written
                   b1 == Write(n.buffer, base + o1, Bytes(<<info.status % 256>>))
                   b2 == Write(b1, base + o1 + 1, Bytes(<<info.mode % 256>>))
                   b3 == Write(b2, base + o1 + 2, Bytes(htonl(info.incarnation)))
                   o2 == o1 + 6
               IN IF include_heartbeat
                  THEN [throws |-> FALSE,
                        buffer |-> Write(b3, base + o2, Bytes(htonl(info.heartbeat_counter))),
                        written |-> o2 + 4]
                  ELSE [throws |-> FALSE, buffer |-> b3, written |-> o2]

MembershipInfoDeserialize(buffer, base, buffer_size, include_heartbeat, time) ==
  LET n == NodeIdDeserialize(buffer, base, buffer_size)
      o1 == NodeIdSize
  IN IF n.throws THEN Thrown
     ELSE IF o1 + 1 > buffer_size THEN Thrown
     ELSE IF o1 + 2 > buffer_size THEN Thrown
     ELSE IF o1 + 6 > buffer_size THEN Thrown
     ELSE IF include_heartbeat /\ o1 + 10 > buffer_size THEN Thrown
     ELSE [throws |-> FALSE,
           info |-> [node_id |-> n.node,
                     status |-> ReadBytes(buffer, base + o1, 1)[1],
                     mode |-> ReadBytes(buffer, base + o1 + 1, 1)[1],
                     incarnation |-> ntohl(ReadBytes(buffer, base + o1 + 2, 4)),
                     local_time |-> time,
                     heartbeat_counter |->
                       IF include_heartbeat
                       THEN ntohl(ReadBytes(buffer, base + o1 + 6, 4))
                       ELSE 0]]

MessageType ==
  [PING |-> 0, ACK |-> 1, GOSSIP |-> 2, JOIN |-> 3, LEAVE |-> 4, SWITCH |-> 5]

RECURSIVE SerializeEach(_, _, _, _, _)
SerializeEach(messages, buffer, offset, buffer_size, include_heartbeat) ==
  IF messages = <<>>
  THEN [throws |-> FALSE, buffer |-> buffer, written |-> offset]
  ELSE LET w == MembershipInfoSerialize(Head(messages), buffer, offset,
                                        buffer_size - offset, include_heartbeat)
       IN IF w.throws
          THEN [throws |-> TRUE, buffer |-> w.buffer, written |-> offset]
          ELSE SerializeEach(Tail(messages), w.buffer, offset + w.written, buffer_size,
                             include_heartbeat)

MessageSerialize(m, buffer, buffer_size) ==
  LET include_heartbeat == m.type = MessageType.GOSSIP
      count == Len(m.messages)
      needed_size == 1 + 4 + count * MembershipSize(include_heartbeat)
      zeroed == Zeroed(buffer, buffer_size)
  IN IF needed_size > buffer_size
     THEN [throws |-> TRUE, buffer |-> zeroed, written |-> 0]
     ELSE LET b1 == Write(zeroed, 0, Bytes(<<m.type % 256>>))
              b2 == Write(b1, 1, Bytes(htonl(count)))
          IN SerializeEach(m.messages, b2, 5, buffer_size, include_heartbeat)

RECURSIVE DeserializeEach(_, _, _, _, _, _)
DeserializeEach(buffer, offset, buffer_size, include_heartbeat, count, time) ==
  IF count = 0
  THEN [throws |-> FALSE, messages |-> <<>>]
  ELSE LET r == MembershipInfoDeserialize(buffer, offset, buffer_size - offset,
                                          include_heartbeat, time)
       IN IF r.throws
          THEN Thrown
          ELSE LET rest == DeserializeEach(buffer, offset + MembershipSize(include_heartbeat),
                                           buffer_size, include_heartbeat, count - 1, time)
               IN IF rest.throws
                  THEN Thrown
                  ELSE [throws |-> FALSE, messages |-> <<r.info>> \o rest.messages]

(* the loop of Message::deserialize, lines 221-229.  The entries have one    *)
(* size, so the loop throws at some entry exactly when the last one ends     *)
(* beyond the buffer                                                         *)
DeserializeAll(buffer, buffer_size, include_heartbeat, count, time) ==
  IF count > (buffer_size - 5) \div MembershipSize(include_heartbeat)
  THEN Thrown
  ELSE DeserializeEach(buffer, 5, buffer_size, include_heartbeat, count, time)

(* a Message::deserialize that never expects heartbeat counters *)
MessageDeserializeNoHeartbeat(buffer, buffer_size, time) ==
  IF 1 > buffer_size THEN Thrown
  ELSE IF 5 > buffer_size THEN Thrown
  ELSE LET type == ReadBytes(buffer, 0, 1)[1]
           num_messages == ntohl(ReadBytes(buffer, 1, 4))
           each == DeserializeAll(buffer, buffer_size, FALSE, num_messages, time)
       IN IF each.throws
          THEN Thrown
          ELSE [throws |-> FALSE,
                message |-> [type |-> type, num_messages |-> num_messages,
                             messages |-> each.messages]]

MessageDeserialize(buffer, buffer_size, time) ==
  IF 1 > buffer_size THEN Thrown
  ELSE IF 5 > buffer_size THEN Thrown
  ELSE LET type == ReadBytes(buffer, 0, 1)[1]
           num_messages == ntohl(ReadBytes(buffer, 1, 4))
           each == DeserializeAll(buffer, buffer_size, type = MessageType.GOSSIP,
                                  num_messages, time)
       IN IF each.throws
          THEN Thrown
          ELSE [throws |-> FALSE,
                message |-> [type |-> type, num_messages |-> num_messages,
                             messages |-> each.messages]]

(* ---- file_block.cpp, file_metadata.cpp, file_message.cpp: the file plane ---- *)

FileMessageType ==
  [CREATE_REQUEST |-> 100, GET_REQUEST |-> 102, GET_RESPONSE |-> 103,
   REPLICATE_BLOCK |-> 109]

(* an operation that failed without writing *)
Failed(buffer) == [throws |-> TRUE, buffer |-> buffer, offset |-> 0]

Done(buffer, offset) == [throws |-> FALSE, buffer |-> buffer, offset |-> offset]

serializeString(buffer, buffer_size, offset, str) ==
  LET str_len == Len(str)
  IN IF offset + 4 + str_len > buffer_size
     THEN Failed(buffer)
     ELSE Done(Write(Write(buffer, offset, Bytes(htonl(str_len))),
                     offset + 4, Chars(str_len, str)),
               offset + 4 + str_len)

deserializeString(buffer, buffer_size, offset) ==
  IF offset + 4 > buffer_size
  THEN Thrown
  ELSE LET str_len == ntohl(ReadBytes(buffer, offset, 4))
       IN IF offset + 4 + str_len > buffer_size
          THEN Thrown
          ELSE [throws |-> FALSE, str |-> ReadChars(buffer, offset + 4, str_len),
                offset |-> offset + 4 + str_len]

serializeData(buffer, buffer_size, offset, data) ==
  LET data_size == Len(data)
  IN IF offset + 8 + data_size > buffer_size
     THEN Failed(buffer)
     ELSE Done(Write(Write(buffer, offset, Bytes(htobe64(data_size))),
                     offset + 8, Bytes(data)),
               offset + 8 + data_size)

deserializeData(buffer, buffer_size, offset) ==
  IF offset + 8 > buffer_size
  THEN Thrown
  ELSE LET data_size == be64toh(ReadBytes(buffer, offset, 8))
       IN IF offset + 8 + data_size > buffer_size
          THEN Thrown
          ELSE [throws |-> FALSE, data |-> ReadBytes(buffer, offset + 8, data_size),
                offset |-> offset + 8 + data_size]

(* FileBlock::serialize: the bytes written, 0 when the buffer is too small *)
FileBlockSerialize(block, buffer, base, buffer_size) ==
  LET client_id_len == Len(block.client_id)
      o1 == 8
      o2 == o1 + 4 + client_id_len
      o3 == o2 + 4
      o4 == o3 + 8
      o5 == o4 + 8
      o6 == o5 + block.size
      b1 == Write(buffer, base, Hash(block.block_id))
      b2 == Write(Write(b1, base + o1, Bytes(HostWord(client_id_len))),
                  base + o1 + 4, Chars(client_id_len, block.client_id))
      b3 == Write(b2, base + o2, Bytes(HostWord(block.sequence_num)))
      b4 == Write(b3, base + o3, Bytes(HostLong(block.timestamp)))
      b5 == Write(b4, base + o4, Bytes(HostLong(block.size)))
      b6 == Write(b5, base + o5, Bytes(block.data))
  IN IF o1 > buffer_size THEN [written |-> 0, buffer |-> buffer]
     ELSE IF o2 > buffer_size THEN [written |-> 0, buffer |-> b1]
     ELSE IF o3 > buffer_size THEN [written |-> 0, buffer |-> b2]
     ELSE IF o4 > buffer_size THEN [written |-> 0, buffer |-> b3]
     ELSE IF o5 > buffer_size THEN [written |-> 0, buffer |-> b4]
     ELSE IF o6 > buffer_size THEN [written |-> 0, buffer |-> b5]
     ELSE [written |-> o6, buffer |-> b6]

(* `FileBlock block;' : the strings and the vector are empty, the integers   *)
(* have no initializer and hold whatever the stack held, `junk'              *)
DefaultBlock(junk) ==
  [block_id |-> <<"", junk, junk>>, client_id |-> "", sequence_num |-> junk,
   timestamp |-> junk, data |-> <<>>, size |-> junk]

(* FileBlock::deserialize: every failed length check returns the block as    *)
(* far as it has been filled in                                              *)
FileBlockDeserialize(buffer, base, buffer_size, junk) ==
  LET block == DefaultBlock(junk)
      o1 == 8
      client_id_len == FromHostWord(ReadBytes(buffer, base + o1, 4))
      o2 == o1 + 4 + client_id_len
      o3 == o2 + 4
      o4 == o3 + 8
      o5 == o4 + 8
      size == FromHostLong(ReadBytes(buffer, base + o4, 8))
      k1 == [block EXCEPT !.block_id = ReadHash(buffer, base)]
      k2 == [k1 EXCEPT !.client_id = ReadChars(buffer, base + o1 + 4, client_id_len)]
      k3 == [k2 EXCEPT !.sequence_num = FromHostWord(ReadBytes(buffer, base + o2, 4))]
      k4 == [k3 EXCEPT !.timestamp = FromHostLong(ReadBytes(buffer, base + o3, 8))]
      k5 == [k4 EXCEPT !.size = size]
  IN IF o1 > buffer_size THEN block
     ELSE IF o1 + 4 > buffer_size THEN k1
     ELSE IF o2 > buffer_size THEN k1
     ELSE IF o3 > buffer_size THEN k2
     ELSE IF o4 > buffer_size THEN k3
     ELSE IF o5 > buffer_size THEN k4
     ELSE IF o5 + size > buffer_size THEN k5
     ELSE [k5 EXCEPT !.data = ReadBytes(buffer, base + o5, size)]

RECURSIVE WriteIds(_, _, _)
WriteIds(buffer, offset, ids) ==
  IF ids = <<>> THEN buffer
  ELSE WriteIds(Write(buffer, offset, Hash(Head(ids))), offset + 8, Tail(ids))

generateFileId(filename) == <<filename, 0, 0>>

(* FileMetadata::serialize, file_id being generateFileId(hydfs_filename) *)
FileMetadataSerialize(metadata, buffer, base, buffer_size) ==
  LET filename_len == Len(metadata.hydfs_filename)
      block_count == Len(metadata.block_ids)
      o1 == 4 + filename_len
      o2 == o1 + 8
      o3 == o2 + 8
      o4 == o3 + 4
      o5 == o4 + 8
      o6 == o5 + 8
      o7 == o6 + 4
      o8 == o7 + block_count * 8
      b1 == Write(Write(buffer, base, Bytes(HostWord(filename_len))),
                  base + 4, Chars(filename_len, metadata.hydfs_filename))
      b2 == Write(b1, base + o1, Hash(generateFileId(metadata.hydfs_filename)))
      b3 == Write(b2, base + o2, Bytes(HostLong(metadata.total_size)))
      b4 == Write(b3, base + o3, Bytes(HostWord(metadata.version)))
      b5 == Write(b4, base + o4, Bytes(HostLong(metadata.created_timestamp)))
      b6 == Write(b5, base + o5, Bytes(HostLong(metadata.last_modified_timestamp)))
      b7 == Write(b6, base + o6, Bytes(HostWord(block_count)))
      b8 == WriteIds(b7, base + o7, metadata.block_ids)
  IN IF o1 > buffer_size THEN [written |-> 0, buffer |-> buffer]
     ELSE IF o2 > buffer_size THEN [written |-> 0, buffer |-> b1]
     ELSE IF o3 > buffer_size THEN [written |-> 0, buffer |-> b2]
     ELSE IF o4 > buffer_size THEN [written |-> 0, buffer |-> b3]
     ELSE IF o5 > buffer_size THEN [written |-> 0, buffer |-> b4]
     ELSE IF o6 > buffer_size THEN [written |-> 0, buffer |-> b5]
     ELSE IF o7 > buffer_size THEN [written |-> 0, buffer |-> b6]
     ELSE IF o8 > buffer_size THEN [written |-> 0, buffer |-> b7]
     ELSE [written |-> o8, buffer |-> b8]

(* `FileMetadata metadata;' : as DefaultBlock *)
DefaultMetadata(junk) ==
  [hydfs_filename |-> NoName, total_size |-> junk, block_ids |-> <<>>, version |-> junk,
   created_timestamp |-> junk, last_modified_timestamp |-> junk]

(* FileMetadata::deserialize; file_id is read and carried by the name *)
FileMetadataDeserialize(buffer, base, buffer_size, junk) ==
  LET metadata == DefaultMetadata(junk)
      filename_len == FromHostWord(ReadBytes(buffer, base, 4))
      o1 == 4 + filename_len
      o2 == o1 + 8
      o3 == o2 + 8
      o4 == o3 + 4
      o5 == o4 + 8
      o6 == o5 + 8
      o7 == o6 + 4
      block_count == FromHostWord(ReadBytes(buffer, base + o6, 4))
      k1 == [metadata EXCEPT !.hydfs_filename = ReadChars(buffer, base + 4, filename_len)]
      k3 == [k1 EXCEPT !.total_size = FromHostLong(ReadBytes(buffer, base + o2, 8))]
      k4 == [k3 EXCEPT !.version = FromHostWord(ReadBytes(buffer, base + o3, 4))]
      k5 == [k4 EXCEPT !.created_timestamp = FromHostLong(ReadBytes(buffer, base + o4, 8))]
      k6 == [k5 EXCEPT !.last_modified_timestamp =
                         FromHostLong(ReadBytes(buffer, base + o5, 8))]
  IN IF 4 > buffer_size THEN metadata
     ELSE IF o1 > buffer_size THEN metadata
     ELSE IF o2 > buffer_size THEN k1
     ELSE IF o3 > buffer_size THEN k1
     ELSE IF o4 > buffer_size THEN k3
     ELSE IF o5 > buffer_size THEN k4
     ELSE IF o6 > buffer_size THEN k5
     ELSE IF o7 > buffer_size THEN k6
     ELSE IF block_count > (buffer_size - o7) \div 8 THEN k6
     ELSE [k6 EXCEPT !.block_ids =
                       [i \in 1..block_count |-> ReadHash(buffer, base + o7 + (i - 1) * 8)]]

CreateFileRequestSerialize(req, buffer, buffer_size) ==
  LET s1 == serializeString(buffer, buffer_size, 0, req.hydfs_filename)
      s2 == serializeString(s1.buffer, buffer_size, s1.offset, req.local_filename)
      b3 == Write(s2.buffer, s2.offset, Bytes(htobe64(req.client_id)))
      s4 == serializeData(b3, buffer_size, s2.offset + 8, req.data)
  IN IF s1.throws THEN s1
     ELSE IF s2.throws THEN s2
     ELSE IF s2.offset + 8 > buffer_size THEN Failed(s2.buffer)
     ELSE s4

CreateFileRequestDeserialize(buffer, buffer_size) ==
  LET d1 == deserializeString(buffer, buffer_size, 0)
      d2 == deserializeString(buffer, buffer_size, d1.offset)
      client_id == be64toh(ReadBytes(buffer, d2.offset, 8))
      d4 == deserializeData(buffer, buffer_size, d2.offset + 8)
  IN IF d1.throws \/ d2.throws \/ d4.throws
     THEN Thrown
     ELSE [throws |-> FALSE,
           msg |-> [hydfs_filename |-> d1.str, local_filename |-> d2.str,
                    client_id |-> client_id, data |-> d4.data]]

GetFileRequestSerialize(req, buffer, buffer_size) ==
  LET s1 == serializeString(buffer, buffer_size, 0, req.hydfs_filename)
      s2 == serializeString(s1.buffer, buffer_size, s1.offset, req.local_filename)
      b3 == Write(s2.buffer, s2.offset, Bytes(htobe64(req.client_id)))
      b4 == Write(b3, s2.offset + 8, Bytes(htonl(req.last_known_sequence)))
  IN IF s1.throws THEN s1
     ELSE IF s2.throws THEN s2
     ELSE IF s2.offset + 8 > buffer_size THEN Failed(s2.buffer)
     ELSE IF s2.offset + 12 > buffer_size THEN Failed(b3)
     ELSE Done(b4, s2.offset + 12)

GetFileRequestDeserialize(buffer, buffer_size) ==
  LET d1 == deserializeString(buffer, buffer_size, 0)
      d2 == deserializeString(buffer, buffer_size, d1.offset)
  IN IF d1.throws \/ d2.throws
     THEN Thrown
     ELSE [throws |-> FALSE,
           msg |-> [hydfs_filename |-> d1.str, local_filename |-> d2.str,
                    client_id |-> be64toh(ReadBytes(buffer, d2.offset, 8)),
                    last_known_sequence |-> ntohl(ReadBytes(buffer, d2.offset + 8, 4))]]

RECURSIVE SerializeBlocks(_, _, _, _)
SerializeBlocks(blocks, buffer, offset, buffer_size) ==
  IF blocks = <<>>
  THEN Done(buffer, offset)
  ELSE LET w == FileBlockSerialize(Head(blocks), buffer, offset, buffer_size - offset)
       IN IF w.written = 0
          THEN Failed(w.buffer)
          ELSE SerializeBlocks(Tail(blocks), w.buffer, offset + w.written, buffer_size)

GetFileResponseSerialize(resp, buffer, buffer_size) ==
  LET b0 == Write(buffer, 0, Bytes(<<IF resp.success THEN 1 ELSE 0>>))
      s1 == serializeString(b0, buffer_size, 1, resp.error_message)
      w2 == FileMetadataSerialize(resp.metadata, s1.buffer, s1.offset,
                                  buffer_size - s1.offset)
      o2 == s1.offset + w2.written
      b3 == Write(w2.buffer, o2, Bytes(htonl(Len(resp.blocks))))
  IN IF s1.throws THEN s1
     ELSE IF w2.written = 0 THEN Failed(w2.buffer)
     ELSE IF o2 + 4 > buffer_size THEN Failed(w2.buffer)
     ELSE SerializeBlocks(resp.blocks, b3, o2 + 4, buffer_size)

(* the block loop of GetFileResponse::deserialize, lines 297-341: it steps   *)
(* over the size field as 4 bytes where FileBlock::serialize wrote 8         *)
RECURSIVE DeserializeBlocks(_, _, _, _, _)
DeserializeBlocks(buffer, offset, buffer_size, block_count, junk) ==
  IF block_count = 0 \/ offset >= buffer_size
  THEN <<>>
  ELSE LET block == FileBlockDeserialize(buffer, offset, buffer_size - offset, junk)
           client_id_len == IF offset + 8 + 4 <= buffer_size
                            THEN FromHostWord(ReadBytes(buffer, offset + 8, 4))
                            ELSE 0
           o1 == 8 + 4 + client_id_len + 4 + 8
           data_size == IF offset + o1 + 4 <= buffer_size
                        THEN FromHostWord(ReadBytes(buffer, offset + o1, 4))
                        ELSE 0
           block_offset == o1 + 4 + data_size
       IN <<block>> \o DeserializeBlocks(buffer, offset + block_offset, buffer_size,
                                         block_count - 1, junk)

(* `GetFileResponse resp;' *)
DefaultResponse(junk) ==
  [success |-> junk # 0, error_message |-> "", metadata |-> DefaultMetadata(junk),
   blocks |-> <<>>]

GetFileResponseDeserialize(buffer, buffer_size, junk) ==
  LET resp == DefaultResponse(junk)
      success == ReadBytes(buffer, 0, 1)[1] # 0
      d1 == deserializeString(buffer, buffer_size, 1)
      r1 == [resp EXCEPT !.success = success, !.error_message = d1.str]
      metadata == FileMetadataDeserialize(buffer, d1.offset, buffer_size - d1.offset, junk)
      r2 == [r1 EXCEPT !.metadata = metadata]
      o2 == d1.offset + 4 + Len(metadata.hydfs_filename) + 8 + 8 + 4 + 8 + 8 + 4
              + Len(metadata.block_ids) * 8
      block_count == ntohl(ReadBytes(buffer, o2, 4))
  IN IF buffer_size < 1 THEN [throws |-> FALSE, msg |-> resp]
     ELSE IF d1.throws THEN Thrown
     ELSE IF ~success THEN [throws |-> FALSE, msg |-> r1]
     ELSE IF o2 + 4 > buffer_size THEN [throws |-> FALSE, msg |-> r2]
     ELSE [throws |-> FALSE,
           msg |-> [r2 EXCEPT !.blocks =
                      DeserializeBlocks(buffer, o2 + 4, buffer_size, block_count, junk)]]

ReplicateBlockMessageSerialize(msg, buffer, buffer_size) ==
  LET s1 == serializeString(buffer, buffer_size, 0, msg.hydfs_filename)
      w2 == FileBlockSerialize(msg.block, s1.buffer, s1.offset, buffer_size - s1.offset)
  IN IF s1.throws THEN s1
     ELSE IF w2.written = 0 THEN Failed(w2.buffer)
     ELSE Done(w2.buffer, s1.offset + w2.written)

ReplicateBlockMessageDeserialize(buffer, buffer_size, junk) ==
  LET d1 == deserializeString(buffer, buffer_size, 0)
  IN IF d1.throws
     THEN Thrown
     ELSE [throws |-> FALSE,
           msg |-> [hydfs_filename |-> d1.str,
                    block |-> FileBlockDeserialize(buffer, d1.offset,
                                                   buffer_size - d1.offset, junk)]]

(* X::serialize(buffer, sizeof(buffer)) of the message struct X of a type *)
FileSerialize(type, msg, buffer, buffer_size) ==
  CASE type = FileMessageType.CREATE_REQUEST ->
         CreateFileRequestSerialize(msg, buffer, buffer_size)
    [] type = FileMessageType.GET_REQUEST ->
         GetFileRequestSerialize(msg, buffer, buffer_size)
    [] type = FileMessageType.GET_RESPONSE ->
         GetFileResponseSerialize(msg, buffer, buffer_size)
    [] type = FileMessageType.REPLICATE_BLOCK ->
         ReplicateBlockMessageSerialize(msg, buffer, buffer_size)

(* X::deserialize(buffer, buffer_size), as the cases of handleFileMessage call it *)
FileDeserialize(type, buffer, buffer_size, junk) ==
  CASE type = FileMessageType.CREATE_REQUEST ->
         CreateFileRequestDeserialize(buffer, buffer_size)
    [] type = FileMessageType.GET_REQUEST ->
         GetFileRequestDeserialize(buffer, buffer_size)
    [] type = FileMessageType.GET_RESPONSE ->
         GetFileResponseDeserialize(buffer, buffer_size, junk)
    [] type = FileMessageType.REPLICATE_BLOCK ->
         ReplicateBlockMessageDeserialize(buffer, buffer_size, junk)

SendBufferSize == 8192   \* char buffer[8192] of every sender

(* sendFileMessage: the type byte, then at most BUFFER_LEN - 1 bytes of body *)
sendFileMessage(type, buffer, buffer_size) ==
  LET copy_size == IF buffer_size < BUFFER_LEN - 1 THEN buffer_size ELSE BUFFER_LEN - 1
      body == Truncate(buffer, copy_size)
  IN Write([o \in {c + 1 : c \in DOMAIN body} |-> body[o - 1]], 0, Bytes(<<type>>))

(* the body a receiver hands to handleFileMessage: buffer.data() + 1 *)
Body(datagram) ==
  [o \in {c - 1 : c \in DOMAIN datagram \ {0}} |-> datagram[o + 1]]

----------------------------------------------------------------------------
(* SpecMessage: NodeId, MembershipInfo and Message serialized into buffers   *)
(* of any size and read back, and datagrams of both planes handed to         *)
(* Node::handleIncoming                                                      *)

MsgNodeIds ==
  {[host |-> "h1", port |-> "8001", time |-> 1],
   [host |-> "h2", port |-> "8002", time |-> 70000]}

MsgInfo(host, port, time, status, mode, incarnation, heartbeat_counter) ==
  [node_id |-> [host |-> host, port |-> port, time |-> time], status |-> status,
   mode |-> mode, incarnation |-> incarnation, heartbeat_counter |-> heartbeat_counter]

(* one entry of every NodeStatus and every FailureDetectionMode *)
MsgInfos ==
  {MsgInfo("h1", "8001", 1, 0, 0, 0, 100), MsgInfo("h2", "8002", 70000, 1, 1, 1, 200),
   MsgInfo("h1", "8001", 1, 2, 2, 300, 999), MsgInfo("h2", "8002", 70000, 3, 3, 70000, 0)}

MsgLists == UNION {[1..k -> MsgInfos] : k \in 0..MaxEntries}

Messages == {[type |-> t, messages |-> l] : t \in 0..5, l \in MsgLists}

BufferSizes ==
  {0, 4, 5, 10, 42, 43, 48, 49, 52, 53, 54, 57, 58, 102, 103, 110, 111, BUFFER_LEN}

(* the blocks, stores and messages of the file plane put on the wire *)
WireBlocks == {FileBlock("3", q, 2, d) : q \in {0, 1}, d \in Data}

WireStores ==
  LET fresh == {createFile(EmptyStore, "f1", d, "3", 1).store : d \in Data \cup {<<>>}}
  IN fresh \cup {appendBlock(s, "f1", b, 3).store : s \in fresh, b \in WireBlocks}

WireMessages ==
  {[type |-> FileMessageType.CREATE_REQUEST,
    msg |-> [hydfs_filename |-> "f1", local_filename |-> "a", client_id |-> 3,
             data |-> d]] : d \in Data \cup {<<>>}}
  \cup {[type |-> FileMessageType.GET_REQUEST,
         msg |-> [hydfs_filename |-> "f1", local_filename |-> "out1", client_id |-> 3,
                  last_known_sequence |-> q]] : q \in {0, 1}}
  \cup {[type |-> FileMessageType.GET_RESPONSE,
         msg |-> [success |-> TRUE, error_message |-> "",
                  metadata |-> getFileMetadata(s, "f1"),
                  blocks |-> getFileBlocks(s, "f1")]] : s \in WireStores}
  \cup {[type |-> FileMessageType.REPLICATE_BLOCK,
         msg |-> [hydfs_filename |-> "f1", block |-> b]] : b \in WireBlocks}

(* X::serialize into the sender's char buffer[8192] *)
Encoded == [w \in WireMessages |-> FileSerialize(w.type, w.msg, ZeroBuffer, SendBufferSize)]

(* the datagram a sender puts on the wire for a message of the file plane *)
FileDatagram(w) == sendFileMessage(w.type, Encoded[w].buffer, Encoded[w].offset)

OnWire == [w \in WireMessages |-> FileDatagram(w)]

(* the datagrams of both planes as their senders build them, PING, ACK, JOIN *)
(* and LEAVE carrying an entry, and two whose first byte has no handler     *)
Datagrams ==
  {MessageSerialize(m, ZeroBuffer, BUFFER_LEN).buffer :
     m \in {x \in Messages :
              x.type \in {MessageType.GOSSIP, MessageType.SWITCH} \/ x.messages # <<>>}}
  \cup {OnWire[w] : w \in WireMessages}
  \cup {Write(ZeroBuffer, 0, Bytes(<<b>>)) : b \in {50, 122}}

(* one pass of the loop of Node::handleIncoming over a datagram read into    *)
(* the cleared buffer: the handler the datagram is given to.  A throw of     *)
(* Message::deserialize or of messages.at(0) leaves the loop.                *)
handleIncoming(buffer, delivered, time) ==
  IF ~delivered
  THEN "dropped by drop_rate"
  ELSE LET d == MessageDeserialize(buffer, BUFFER_LEN, time)
       IN IF d.throws
          THEN "throws"
          ELSE LET type == d.message.type
                   first == IF d.message.messages = <<>> THEN "throws" ELSE "handled"
               IN CASE type = MessageType.PING ->
                         IF first = "throws" THEN first ELSE "handlePing"
                    [] type = MessageType.ACK ->
                         IF first = "throws" THEN first ELSE "handleAck"
                    [] type = MessageType.GOSSIP -> "handleGossip"
                    [] type = MessageType.JOIN ->
                         IF first = "throws" THEN first ELSE "handleJoin"
                    [] type = MessageType.LEAVE ->
                         IF first = "throws" THEN first ELSE "handleLeave"
                    [] type = MessageType.SWITCH -> "handleSwitch"
                    [] OTHER -> "default"

(* one call in a behaviour: the operations are functions of their arguments *)
MessageFrame ==
  /\ ops' = 1
  /\ UNCHANGED <<ring, mem_list, introducer_alive, issued,
                 file_store, client_tracker, sequence_numbers, local_file_cache,
                 pending_gets, get_results, network, now, caller, dups, acked, created,
                 merged, timed_out, ingress, pending_ls, last_replicas, mtx, thread>>

SerializeNodeId(node, bufferSize) ==
  ops = 0 /\
  LET r == NodeIdSerialize(node, Scratch, 0, bufferSize)
  IN /\ last' = [op |-> "NodeId::serialize", size |-> bufferSize, encoded |-> NodeIdSize,
                 throws |-> r.throws, buffer |-> r.buffer,
                 decoded |-> IF r.throws THEN Thrown
                             ELSE NodeIdDeserialize(r.buffer, 0, bufferSize)]
     /\ MessageFrame

SerializeMembershipInfo(info, buffer_size, include_heartbeat) ==
  ops = 0 /\
  LET r == MembershipInfoSerialize(info, Scratch, 0, buffer_size, include_heartbeat)
  IN /\ last' = [op |-> "MembershipInfo::serialize", size |-> buffer_size,
                 encoded |-> MembershipSize(include_heartbeat), throws |-> r.throws,
                 buffer |-> r.buffer, include_heartbeat |-> include_heartbeat]
     /\ MessageFrame

SerializeMessage(m, buffer_size) ==
  ops = 0 /\
  LET r == MessageSerialize(m, Scratch, buffer_size)
  IN /\ last' = [op |-> "Message::serialize", size |-> buffer_size,
                 encoded |-> 1 + 4 + Len(m.messages)
                                       * MembershipSize(m.type = MessageType.GOSSIP),
                 throws |-> r.throws, buffer |-> r.buffer, m |-> m,
                 decoded |-> IF r.throws THEN Thrown
                             ELSE MessageDeserialize(r.buffer, buffer_size, now)]
     /\ MessageFrame

Incoming(datagram, delivered) ==
  /\ ops = 0
  /\ last' = [op |-> "handleIncoming", first_byte |-> ByteAt(datagram, 0),
              delivered |-> delivered, route |-> handleIncoming(datagram, delivered, now)]
  /\ MessageFrame

NextMessage ==
  \/ \E node \in MsgNodeIds, size \in BufferSizes : SerializeNodeId(node, size)
  \/ \E info \in MsgInfos, size \in BufferSizes, hb \in BOOLEAN :
       SerializeMembershipInfo(info, size, hb)
  \/ \E m \in Messages, size \in BufferSizes : SerializeMessage(m, size)
  \/ \E datagram \in Datagrams, delivered \in BOOLEAN : Incoming(datagram, delivered)

SpecMessage == InitBase /\ [][NextMessage]_vars

----------------------------------------------------------------------------
(* SpecWire: messages of the file plane encoded, sent and decoded, and       *)
(* datagrams of the two types that write the store received whole or cut     *)
(* short by node StoreNode                                                   *)

WireFrame ==
  UNCHANGED <<ring, mem_list, introducer_alive, issued,
              client_tracker, sequence_numbers, local_file_cache, pending_gets,
              get_results, now, caller, dups, acked, created, merged, timed_out, ingress,
              pending_ls, last_replicas, mtx, thread>>

WirePeer == "n2"

(* what an uninitialised integer may hold *)
Junk == {0, 7}

StoreTypes == {FileMessageType.CREATE_REQUEST, FileMessageType.REPLICATE_BLOCK}

(* encode, sendFileMessage, receive, decode *)
RoundTrip(w, junk) ==
  /\ ops < MaxWireOps
  /\ ops' = ops + 1
  /\ last' = [op |-> "round trip", type |-> w.type, msg |-> w.msg,
              decoded |-> FileDeserialize(w.type, Body(OnWire[w]), Encoded[w].offset, junk)]
  /\ UNCHANGED <<file_store, network>>
  /\ WireFrame

(* case CREATE_REQUEST of handleFileMessage, then handleCreateRequest *)
WireCreateRequest(store, req) ==
  LET r == createFile(store, req.hydfs_filename, req.data, ToString(req.client_id), now)
  IN [store |-> r.store,
      sent |-> <<Msg("CREATE_RESPONSE", StoreNode, WirePeer,
                     [success |-> r.ok, hydfs_filename |-> req.hydfs_filename])>>]

(* case REPLICATE_BLOCK of handleFileMessage, then handleReplicateBlock *)
WireReplicateBlock(store, msg) ==
  LET a == appendBlock(store, msg.hydfs_filename, msg.block, now)
      r == IF a.ok THEN a
           ELSE createFile(store, msg.hydfs_filename, msg.block.data, msg.block.client_id,
                           now)
  IN [store |-> r.store, sent |-> <<Msg("REPLICATE_ACK", StoreNode, WirePeer, msg)>>]

(* handleFileMessage on the first `cut' bytes of the body of a datagram:     *)
(* a decoder that throws is caught at line 1226 and the datagram is logged   *)
WireReceive(w, cut, junk) ==
  /\ ops < MaxWireOps
  /\ w.type \in StoreTypes
  /\ cut \in 0..Encoded[w].offset
  /\ \E d \in {FileDeserialize(w.type, Truncate(Body(OnWire[w]), cut), cut, junk)} :
       \E h \in {IF d.throws THEN [store |-> TheStore, sent |-> <<>>]
                 ELSE IF w.type = FileMessageType.CREATE_REQUEST
                      THEN WireCreateRequest(TheStore, d.msg)
                      ELSE WireReplicateBlock(TheStore, d.msg)} :
         /\ ops' = ops + 1
         /\ file_store' = [file_store EXCEPT ![StoreNode] = h.store]
         /\ network' = SendAll(network, h.sent)
         /\ last' = [op |-> "receive", type |-> w.type, size |-> Encoded[w].offset,
                     cut |-> cut, rejected |-> d.throws]
  /\ WireFrame

NextWire ==
  \/ \E w \in WireMessages, junk \in Junk : RoundTrip(w, junk)
  \/ \E w \in WireMessages, junk \in Junk :
       \E cut \in 0..Encoded[w].offset :
         WireReceive(w, cut, junk)

SpecWire == InitBase /\ [][NextWire]_vars

----------------------------------------------------------------------------
(* SpecSeq: appendFile called by two threads of one node, one step per       *)
(* statement of getNextSequenceNum.  seq_mtx_ is held by the thread that is  *)
(* between its lock_guard and the return of getNextSequenceNum.              *)

SeqSection == {"seq_read", "seq_write"}

(* A variant of CanLockSeq that grants seq_mtx_ while another thread holds it *)
CanLockSeqAlways(t) == TRUE

(* std::lock_guard<std::mutex> lock(seq_mtx_) can be taken by thread t *)
CanLockSeq(t) == \A u \in ConcThreads \ {t} : Th(u).pc \notin SeqSection

SeqFrame ==
  UNCHANGED <<ring, mem_list, introducer_alive,
              file_store, client_tracker, local_file_cache, pending_gets, get_results,
              now, caller, dups, acked, created, merged, timed_out, ingress, pending_ls,
              last_replicas, mtx>>

(* appendFile up to the call of getNextSequenceNum (lines 389-411) *)
SeqAppendFile(t, local_filename, hydfs_filename) ==
  /\ ops < MaxSeqCalls
  /\ Th(t).pc = "idle"
  /\ local_filename \in DOMAIN local_file_cache[PairNode]
  /\ ops' = ops + 1
  /\ thread' = Put(thread, t, [pc |-> "seq_lock", hydfs_filename |-> hydfs_filename,
                               local_filename |-> local_filename])
  /\ last' = [op |-> "append_call", thread |-> t, file |-> hydfs_filename]
  /\ UNCHANGED <<sequence_numbers, network, issued>>
  /\ SeqFrame

(* line 89 *)
SeqLock(t) ==
  /\ Th(t).pc = "seq_lock"
  /\ CanLockSeq(t)
  /\ thread' = Put(thread, t, [Th(t) EXCEPT !.pc = "seq_read"])
  /\ UNCHANGED <<sequence_numbers, network, issued, ops, last>>
  /\ SeqFrame

(* line 90, the read of sequence_numbers_[hydfs_filename]: operator[] makes  *)
(* an entry of 0 for a name it does not hold                                 *)
SeqRead(t) ==
  /\ Th(t).pc = "seq_read"
  /\ thread' = Put(thread, t, [pc |-> "seq_write",
                               hydfs_filename |-> Th(t).hydfs_filename,
                               local_filename |-> Th(t).local_filename,
                               sequence_num |->
                                 getNextSequenceNum(PairNode, Th(t).hydfs_filename)])
  /\ UNCHANGED <<sequence_numbers, network, issued, ops, last>>
  /\ SeqFrame

(* line 90, the write of the incremented value, and the return at line 91,   *)
(* which releases seq_mtx_                                                   *)
SeqWrite(t) ==
  /\ Th(t).pc = "seq_write"
  /\ sequence_numbers' = [sequence_numbers EXCEPT ![PairNode] =
                            Put(@, Th(t).hydfs_filename, Th(t).sequence_num + 1)]
  /\ issued' = Append(issued, [file |-> Th(t).hydfs_filename,
                               sequence_num |-> Th(t).sequence_num])
  /\ thread' = Put(thread, t, [Th(t) EXCEPT !.pc = "send"])
  /\ UNCHANGED <<network, ops, last>>
  /\ SeqFrame

(* lines 412-455: the request is built and handed to sendFileMessage, which  *)
(* reports whether the socket took it                                        *)
SeqSend(t, sent) ==
  /\ Th(t).pc = "send"
  /\ LET n == PairNode
         name == Th(t).hydfs_filename
         replicas == Replicas(name)
         req == [hydfs_filename |-> name, local_filename |-> Th(t).local_filename,
                 client_id |-> hashNodeId[n], sequence_num |-> Th(t).sequence_num,
                 data |-> local_file_cache[n][Th(t).local_filename]]
         ok == replicas # <<>> /\ sent
     IN /\ network' = IF ok
                      THEN SendAll(network, <<Msg("APPEND_REQUEST", n, replicas[1], req)>>)
                      ELSE network
        /\ last' = [op |-> "append", node |-> n, thread |-> t, file |-> name, ok |-> ok,
                    sequence_num |-> Th(t).sequence_num,
                    earlier |-> {m.body.sequence_num :
                                   m \in {x \in InFlight : /\ x.type = "APPEND_REQUEST"
                                                           /\ x.src = n
                                                           /\ x.body.hydfs_filename = name}}]
  /\ thread' = Put(thread, t, IdleThread)
  /\ UNCHANGED <<sequence_numbers, issued, ops>>
  /\ SeqFrame

NextSeq ==
  \/ \E t \in ConcThreads, l \in AppendSources, f \in FileNames : SeqAppendFile(t, l, f)
  \/ \E t \in ConcThreads : SeqLock(t)
  \/ \E t \in ConcThreads : SeqRead(t)
  \/ \E t \in ConcThreads : SeqWrite(t)
  \/ \E t \in ConcThreads, sent \in BOOLEAN : SeqSend(t, sent)

SpecSeq == Init /\ [][NextSeq]_vars

----------------------------------------------------------------------------
(* SpecMember: the membership list and the hash ring of one Node under the   *)
(* JOIN, PING, ACK, GOSSIP and LEAVE messages it receives and the timeouts   *)
(* of its failure detector.  All entries carry the node's own detection      *)
(* mode, and the time since a node was last heard of is any time, so each    *)
(* timeout may fire whenever its status test allows it.                      *)

MemberSelf == "n1"
Peers == {"n2", "n3"}

Statuses == {"ALIVE", "SUSPECT", "DEAD", "LEFT"}

Infos == {Member(st, i, h) : st \in Statuses, i \in 0..MaxCounter, h \in 0..MaxCounter}

(* MembershipList *)
MembershipListAddNode(l, node_id, info) ==
  IF node_id \in DOMAIN l THEN l
  ELSE IF info.status \in {"DEAD", "LEFT"} THEN l
  ELSE Put(l, node_id, info)

MembershipListRemoveNode(l, node_id) == Erase(l, {node_id})

updateNodeStatus(l, node_id, new_status) ==
  IF node_id \in DOMAIN l THEN [l EXCEPT ![node_id].status = new_status] ELSE l

updateHeartBeatCounter(l, node_id, new_heartbeat) ==
  IF node_id \in DOMAIN l THEN [l EXCEPT ![node_id].heartbeat_counter = new_heartbeat] ELSE l

updateIncarnation(l, node_id, new_incarnation) ==
  IF node_id \in DOMAIN l THEN [l EXCEPT ![node_id].incarnation = new_incarnation] ELSE l

incrementIncarnation(l, node_id) ==
  IF node_id \in DOMAIN l THEN [l EXCEPT ![node_id].incarnation = @ + 1] ELSE l

(* the list and the ring of the node, as the handlers change them together *)
Both(l, r) == [mem_list |-> l, ring |-> r]

(* the body of handleGossip's loop for one entry of the message *)
handleGossipEntry(l, r, node_id, update) ==
  IF node_id \notin DOMAIN l
  THEN \* case 1: getNodeInfo throws
       Both(MembershipListAddNode(l, node_id, update), addNode(r, node_id))
  ELSE LET curr_status == l[node_id]
           refuted == incrementIncarnation(updateNodeStatus(l, MemberSelf, "ALIVE"),
                                           MemberSelf)
       IN IF update.incarnation > curr_status.incarnation
          THEN Both(incrementIncarnation(
                      updateHeartBeatCounter(
                        updateNodeStatus(l, node_id, update.status),
                        node_id, update.heartbeat_counter),
                      node_id), r)
          ELSE IF ~(/\ update.incarnation = curr_status.incarnation
                    /\ update.heartbeat_counter > curr_status.heartbeat_counter)
          THEN Both(l, r)
          ELSE IF update.status = curr_status.status
          THEN Both(updateHeartBeatCounter(l, node_id, update.heartbeat_counter), r)
          ELSE IF update.status = "SUSPECT" /\ curr_status.status = "ALIVE"
          THEN IF node_id = MemberSelf
               THEN Both(refuted, r)
               ELSE Both(updateHeartBeatCounter(
                           updateNodeStatus(l, node_id, update.status),
                           node_id, update.heartbeat_counter), r)
          ELSE IF update.status = "DEAD" /\ curr_status.status = "SUSPECT"
          THEN IF node_id = MemberSelf
               THEN Both(refuted, r)
               ELSE Both(MembershipListRemoveNode(l, node_id), removeNode(r, node_id))
          ELSE IF update.status = "LEFT" /\ curr_status.status # "LEFT"
          THEN Both(MembershipListRemoveNode(l, node_id), removeNode(r, node_id))
          ELSE IF curr_status.status \in {"SUSPECT", "DEAD"} /\ update.status = "ALIVE"
          THEN Both(updateHeartBeatCounter(
                      updateNodeStatus(l, node_id, update.status),
                      node_id, update.heartbeat_counter), r)
          ELSE Both(l, r)

MemberFrame ==
  UNCHANGED <<issued, file_store, client_tracker, sequence_numbers, local_file_cache,
              pending_gets, get_results, network, now, caller, dups, acked, created,
              merged, timed_out, ingress, pending_ls, last_replicas, mtx, thread>>

MemberStep(type, node_id, after) ==
  /\ ops' = ops + 1
  /\ mem_list' = after.mem_list
  /\ ring' = after.ring
  /\ last' = [op |-> type, node_id |-> node_id]
  /\ MemberFrame

(* case GOSSIP of handleIncoming, for a message of one entry *)
HandleGossip(node_id, update) ==
  /\ ops < MaxMemberOps
  /\ MemberStep("GOSSIP", node_id, handleGossipEntry(mem_list, ring, node_id, update))
  /\ UNCHANGED introducer_alive

(* handleJoin: updateMode changes an entry the list holds already, which the *)
(* model does not track; the list gets no new entry                          *)
HandleJoin(node_id, new_node) ==
  /\ ops < MaxMemberOps
  /\ MemberStep("JOIN", node_id, Both(mem_list, addNode(ring, node_id)))
  /\ UNCHANGED introducer_alive

HandlePing(node_id, node) ==
  /\ ops < MaxMemberOps
  /\ MemberStep("PING", node_id,
                IF node_id \in DOMAIN mem_list
                THEN LET local_info == mem_list[node_id]
                         l1 == IF node.incarnation > local_info.incarnation
                               THEN updateIncarnation(mem_list, node_id, node.incarnation)
                               ELSE mem_list
                     IN Both(IF node.status # local_info.status
                             THEN updateNodeStatus(l1, node_id, node.status)
                             ELSE l1,
                             ring)
                ELSE Both(MembershipListAddNode(mem_list, node_id, node),
                          addNode(ring, node_id)))
  /\ UNCHANGED introducer_alive

HandleAck(node_id, node) ==
  /\ ops < MaxMemberOps
  /\ MemberStep("ACK", node_id,
                IF ~introducer_alive
                THEN Both(MembershipListAddNode(mem_list, node_id, node),
                          addNode(ring, node_id))
                ELSE Both(mem_list, ring))
  /\ introducer_alive' = TRUE

HandleLeave(node_id, leaving_node) ==
  /\ ops < MaxMemberOps
  /\ MemberStep("LEAVE", node_id,
                Both(updateIncarnation(
                       updateNodeStatus(mem_list, node_id, leaving_node.status),
                       node_id, leaving_node.incarnation),
                     ring))
  /\ UNCHANGED introducer_alive

(* one pass of runGossip's loop over a node other than self whose time has   *)
(* run out                                                                   *)
MemberTimeout(node_id, enable_suspicion) ==
  /\ ops < MaxMemberOps
  /\ node_id \in DOMAIN mem_list \ {MemberSelf}
  /\ MemberStep("timeout", node_id,
                LET status == mem_list[node_id].status
                IN IF status = "ALIVE"
                   THEN Both(updateNodeStatus(mem_list, node_id,
                                              IF enable_suspicion THEN "SUSPECT"
                                              ELSE "DEAD"),
                             ring)
                   ELSE IF status = "SUSPECT"
                   THEN Both(updateNodeStatus(mem_list, node_id, "DEAD"), ring)
                   ELSE Both(MembershipListRemoveNode(mem_list, node_id),
                             removeNode(ring, node_id)))
  /\ UNCHANGED introducer_alive

NextMember ==
  \/ \E id \in Peers \cup {MemberSelf}, update \in Infos : HandleGossip(id, update)
  \/ \E id \in Peers, new_node \in Infos : HandleJoin(id, new_node)
  \/ \E id \in Peers, node \in Infos : HandlePing(id, node)
  \/ \E id \in Peers, node \in Infos : HandleAck(id, node)
  \/ \E id \in Peers, leaving_node \in Infos : HandleLeave(id, leaving_node)
  \/ \E id \in Peers, enable_suspicion \in BOOLEAN : MemberTimeout(id, enable_suspicion)

(* the Node constructor: self is in the list, ALIVE, and in the ring; the    *)
(* node is the introducer or it is not                                       *)
InitMember ==
  /\ ring = addNode(EmptyMap, MemberSelf)
  /\ mem_list = Put(EmptyMap, MemberSelf, Member("ALIVE", 0, 0))
  /\ introducer_alive \in BOOLEAN
  /\ InitRest

SpecMember == InitMember /\ [][NextMember]_vars

----------------------------------------------------------------------------
(* Properties of SpecRing *)

Min(a, b) == IF a < b THEN a ELSE b

Distinct(seq) == \A i, j \in DOMAIN seq : i # j => seq[i] # seq[j]

(* the ring position the first successor of `position` must sit at *)
FirstPosition(r, position) ==
  LET at_or_after == {k \in DOMAIN r : k >= position}
      from == IF at_or_after # {} THEN at_or_after ELSE DOMAIN r
  IN CHOOSE k \in from : \A x \in from : k <= x

(* C8: getFileReplicas / getSuccessors with count n on a ring of k entries   *)
(* returns min(n, k) pairwise distinct nodes, hence exactly n when k >= n    *)
(* and never more than k, and the first one is the node at the lowest        *)
(* position >= the hashed position, or at the lowest position of the ring    *)
(* when there is none.                                                       *)
C8_RingPlacement ==
  last_replicas # NoCall =>
    LET res == last_replicas.result
        k == Cardinality(DOMAIN ring)
    IN /\ Len(res) = Min(last_replicas.n, k)
       /\ Distinct(res)
       /\ Range(res) \subseteq Range(ring)
       /\ Len(res) > 0 => res[1] = ring[FirstPosition(ring, last_replicas.position)]

C8_Witness ==
  /\ last_replicas # NoCall
  /\ last_replicas.n = ReplicaCount
  /\ Cardinality(DOMAIN ring) > ReplicaCount
  /\ \A k \in DOMAIN ring : k < last_replicas.position
  /\ Len(last_replicas.result) = ReplicaCount

----------------------------------------------------------------------------
(* Properties of SpecStore *)

StoredFiles(s) == DOMAIN s.files

(* the sum of block.size over a file's block_ids; an id without a block      *)
(* contributes nothing                                                       *)
BlockSizeSum(s, filename) ==
  LET ids == s.files[filename].block_ids
  IN SumSeq([i \in 1..Len(ids) |->
               IF ids[i] \in DOMAIN s.blocks THEN s.blocks[ids[i]].size ELSE 0])

(* C5: after any sequence of FileStore calls, every stored file's            *)
(* total_size equals the sum of block.size over its block_ids.               *)
C5_SizeIdentity ==
  \A f \in StoredFiles(TheStore) : TheStore.files[f].total_size = BlockSizeSum(TheStore, f)

VersionOf(s, filename) == getFileMetadata(s, filename).version

(* C7: a FileStore appendBlock or mergeFile call that returns true leaves    *)
(* the file's version strictly greater than it was before the call.          *)
C7_VersionIncreases ==
  [][(ops' = ops + 1 /\ last'.op \in {"append", "merge"} /\ last'.ok)
       => VersionOf(file_store'[StoreNode], last'.file)
            > VersionOf(file_store[StoreNode], last'.file)]_vars

C7_Witness ==
  /\ last.op = "append"
  /\ last.ok
  /\ VersionOf(TheStore, last.file) = 3

(* what a createFile step of SpecStore leaves behind: nothing new when the   *)
(* name was present; otherwise metadata of version 1 and, when `one_block'   *)
(* holds of the payload, a single block with sequence_num 0, the caller's    *)
(* client_id and the payload as data, else no block at all                   *)
CreateInstalls(before, after, call, one_block) ==
  IF call.file \in StoredFiles(before)
  THEN ~call.ok /\ after = before
  ELSE /\ call.ok
       /\ call.file \in StoredFiles(after)
       /\ LET metadata == after.files[call.file]
          IN /\ metadata.version = 1
             /\ IF one_block
                THEN /\ Len(metadata.block_ids) = 1
                     /\ metadata.block_ids[1] \in DOMAIN after.blocks
                     /\ LET block == after.blocks[metadata.block_ids[1]]
                        IN /\ block.sequence_num = 0
                           /\ block.client_id = call.client_id
                           /\ block.data = call.data
                ELSE /\ metadata.block_ids = <<>>
                     /\ after.blocks = before.blocks

(* C26: createFile returns false and changes nothing if the name is present; *)
(* otherwise, for every payload, it installs metadata with version 1 whose   *)
(* block_ids holds exactly one block, with sequence_num 0, the given         *)
(* client_id and data equal to the payload.                                  *)
C26_CreateInstallsOneBlock ==
  [][(ops' = ops + 1 /\ last'.op = "create")
       => CreateInstalls(file_store[StoreNode], file_store'[StoreNode], last', TRUE)]_vars

(* C26 as amended: the single block is installed for every non-empty         *)
(* payload; for the empty payload the metadata of version 1 is installed     *)
(* with an empty block_ids and no block is stored.                           *)
C26_CreateInstallsBlockUnlessEmpty ==
  [][(ops' = ops + 1 /\ last'.op = "create")
       => CreateInstalls(file_store[StoreNode], file_store'[StoreNode], last',
                         last'.data # <<>>)]_vars

C26_Witness ==
  /\ last.op = "create"
  /\ last.ok
  /\ last.data = <<>>
  /\ TheStore.files[last.file].version = 1
  /\ TheStore.files[last.file].block_ids = <<>>

----------------------------------------------------------------------------
(* Properties of Spec *)

(* `data` is a contiguous part of `content` *)
Occurs(data, content) ==
  \E i \in 0..(Len(content) - Len(data)) : SubSeq(content, i + 1, i + Len(data)) = data

(* C1: when getFile on node c returns true, the content it wrote contains    *)
(* the data of every append to that file whose appendFile had returned true  *)
(* on c before the get was typed, whether the local store or a remote        *)
(* replica served the read.                                                  *)
C1_ReadMyWritesEndToEnd ==
  (last.op = "get" /\ last.ok) => \A a \in last.must : Occurs(a.data, last.content)

(* C2: whenever a replica answers a get of f for client c (a GET_RESPONSE    *)
(* with success, or its own local read), the block ids it serves include     *)
(* every id its ClientTracker holds for (c, f).                              *)
C2_ServedIdsCoverRecorded ==
  ((last.op = "serve_get" /\ last.ok) \/ last.op = "get_local")
    => Range(last.recorded) \subseteq Range(last.block_ids)

C2_Witness ==
  /\ last.op = "serve_get"
  /\ last.ok
  /\ last.recorded # <<>>
  /\ Len(last.block_ids) > Len(last.recorded)

ReplicaSet(filename) == Range(Replicas(filename))

(* C3: once the caller of mergeFile has received MERGE_RESPONSE with         *)
(* success and no datagram is lost or still in flight, every replica of the  *)
(* file holds the same block_ids and the same version.                       *)
C3_MergeConvergence ==
  (last.op = "logged" /\ last.type = "MERGE_RESPONSE" /\ last.ok /\ network = EmptyBag)
    => \A r1, r2 \in ReplicaSet(last.body.hydfs_filename) :
         LET m1 == getFileMetadata(file_store[r1], last.body.hydfs_filename)
             m2 == getFileMetadata(file_store[r2], last.body.hydfs_filename)
         IN m1.block_ids = m2.block_ids /\ m1.version = m2.version

(* the blocks a file's block_ids name, in order *)
BlocksInOrder(s, filename) ==
  LET ids == s.files[filename].block_ids
  IN [i \in 1..Len(ids) |-> s.blocks[ids[i]]]

(* C4: on every node, in every file, two entries of block_ids whose blocks   *)
(* carry the same client_id are ordered by index exactly as by sequence_num. *)
C4_PerClientOrder ==
  \A n \in Nodes : \A f \in StoredFiles(file_store[n]) :
    LET bs == BlocksInOrder(file_store[n], f)
    IN \A i, j \in DOMAIN bs :
         (i # j /\ bs[i].client_id = bs[j].client_id)
           => (i < j <=> bs[i].sequence_num < bs[j].sequence_num)

(* C6: on every node, no file's block_ids holds the same block_id twice.     *)
C6_NoDuplicateBlockIds ==
  \A n \in Nodes : \A f \in StoredFiles(file_store[n]) :
    Distinct(file_store[n].files[f].block_ids)

(* C10: a createFile of a name for which an earlier createFile returned true *)
(* returns false, on whichever node it is typed, and leaves every node's     *)
(* copy of the file as it was.                                               *)
C10_CreateRejectsDuplicates ==
  (last.op = "create" /\ last.before)
    => /\ ~last.ok
       /\ \A n \in Nodes : getFileMetadata(file_store[n], last.file) = last.stores[n]

----------------------------------------------------------------------------
(* Properties of SpecConc *)

(* C9: whatever the interleaving of createFile, appendBlock and getFile on   *)
(* one store, no getFile call meets a block_ids entry whose block is not in  *)
(* the block map.                                                            *)
C9_GetSeesWholeFiles ==
  \A t \in ConcThreads : Th(t).pc \in {"g_find", "g_next", "g_ret"} => ~Th(t).missing

(* a getFile has read two blocks while another thread waits to append *)
C9_Witness ==
  \E t, u \in ConcThreads :
    /\ Th(t).pc = "g_ret"
    /\ Th(t).i = 3
    /\ ~Th(t).missing
    /\ Th(u).pc = "a_lock"

----------------------------------------------------------------------------
(* Properties of Spec: error paths, replication and merge *)

NowhereStored(filename) == \A n \in Nodes : ~hasFile(file_store[n], filename)

(* C11: a getFile of a name that no node stores returns false and writes no  *)
(* local file, and the failure reaches the waiting getFile when the          *)
(* replica's GET_RESPONSE with success = false is received: handling that    *)
(* datagram gives the pending get its result, false.                         *)
C11_MissingFileReported ==
  /\ (last.op = "get" /\ NowhereStored(last.file))
       => (~last.ok /\ GetTarget \notin DOMAIN local_file_cache[last.node])
  /\ (last.op = "handle" /\ last.type = "GET_RESPONSE" /\ ~last.success
        /\ last.waiting # {})
       => \E f \in last.waiting :
            f \in DOMAIN get_results[last.node] /\ ~get_results[last.node][f]

(* `data` is the beginning of `content` *)
StartsWith(content, data) ==
  Len(data) <= Len(content) /\ SubSeq(content, 1, Len(data)) = data

Quiet == network = EmptyBag /\ \A n \in Nodes : IngressIdle(n)

(* C12: after a createFile of H has returned true, on a replica or on any    *)
(* other node, with its CREATE_REQUEST sent to every replica and no datagram *)
(* lost, once every datagram has been handled each of the three replicas of  *)
(* H stores H and the file there begins with the payload that was created.   *)
C12_CreateReachesReplicas ==
  \A c \in created :
    (Quiet /\ c.reached = ReplicaSet(c.file))
      => \A r \in ReplicaSet(c.file) :
           /\ hasFile(file_store[r], c.file)
           /\ StartsWith(getFile(file_store[r], c.file), c.data)

(* every block id a ClientTracker holds, for any client and file *)
RecordedIds(t) == UNION {Range(t[k]) : k \in DOMAIN t}

(* C13: the coordinator of an append installs the block, records it in its   *)
(* client-write index, sends APPEND_RESPONSE and then sends REPLICATE_BLOCK: *)
(* the append is in the index before it is acknowledged, so whenever an      *)
(* APPEND_RESPONSE with success, or a REPLICATE_BLOCK, is in flight its      *)
(* block id is in the sender's ClientTracker.                                *)
C13_RecordedBeforeAcknowledged ==
  \A m \in InFlight :
    /\ (m.type = "APPEND_RESPONSE" /\ m.body.success)
         => m.body.block_id \in RecordedIds(client_tracker[m.src])
    /\ m.type = "REPLICATE_BLOCK"
         => m.body.block.block_id \in RecordedIds(client_tracker[m.src])

(* C14: a replica that has handled REPLICATE_BLOCK(f, b) holds f: when it    *)
(* held f before, b has been appended to f's block_ids and stored under its  *)
(* id; when it did not, f has been created from b's data; and a              *)
(* REPLICATE_ACK naming b is on its way back to the sender.                  *)
C14_ReplicateBlockStored ==
  (last.op = "handle" /\ last.type = "REPLICATE_BLOCK")
    => LET store == file_store[last.node]
           meta == getFileMetadata(store, last.file)
       IN /\ last.ok
          /\ hasFile(store, last.file)
          /\ IF last.held
             THEN /\ meta.block_ids = Append(last.before.block_ids, last.block.block_id)
                  /\ meta.version = last.before.version + 1
                  /\ store.blocks[last.block.block_id] = last.block
             ELSE /\ getFile(store, last.file) = last.block.data
                  /\ meta.version = 1
          /\ \E m \in InFlight :
               /\ m.type = "REPLICATE_ACK"
               /\ m.src = last.node
               /\ m.dst = last.from
               /\ m.body = [hydfs_filename |-> last.file, block |-> last.block]

(* a replica that did not hold the file has handled a REPLICATE_BLOCK *)
C14_Witness ==
  /\ last.op = "handle"
  /\ last.type = "REPLICATE_BLOCK"
  /\ ~last.held
  /\ getFile(file_store[last.node], last.file) = <<2, 2>>

(* std::string order of the client ids that occur in Spec: the decimal node  *)
(* positions written by the handlers, then the ids getClientId returns       *)
ClientIdOrder == <<"1", "3", "5", "6", "n1", "n2", "n3", "n4">>

ClientRank(client_id) ==
  CHOOSE i \in DOMAIN ClientIdOrder : ClientIdOrder[i] = client_id

(* a goes strictly before b by client_id, sequence_num, timestamp; two       *)
(* blocks equal in all three have the same block_id                          *)
MergeBefore(a, b) ==
  \/ ClientRank(a.client_id) < ClientRank(b.client_id)
  \/ /\ a.client_id = b.client_id
     /\ \/ a.sequence_num < b.sequence_num
        \/ a.sequence_num = b.sequence_num /\ a.timestamp < b.timestamp

(* C15: when the coordinator has handled a MERGE_REQUEST for a file it       *)
(* holds, the file's block list names every block id that any replica held   *)
(* for the file, each once, in ascending order of client_id, sequence_num,   *)
(* timestamp, block_id.                                                      *)
C15_MergedListSortedOnce ==
  (last.op = "handle" /\ last.type = "MERGE_REQUEST"
     /\ hasFile(file_store[last.node], last.file))
    => LET bs == BlocksInOrder(file_store[last.node], last.file)
           collected == UNION {Range(getFileMetadata(file_store[r], last.file).block_ids) :
                                 r \in ReplicaSet(last.file)}
       IN /\ \A i, j \in DOMAIN bs : i < j => MergeBefore(bs[i], bs[j])
          /\ collected = {bs[i].block_id : i \in DOMAIN bs}

MaxOf(S) == CHOOSE x \in S : \A y \in S : y <= x

(* C16: when the coordinator has handled a MERGE_REQUEST for a file it       *)
(* holds, the new_version of its MERGE_RESPONSE is one more than the largest *)
(* version any replica, the coordinator included, held for the file when the *)
(* request arrived, and the coordinator's copy now carries that version.     *)
C16_MergeVersion ==
  (last.op = "handle" /\ last.type = "MERGE_REQUEST"
     /\ hasFile(file_store[last.node], last.file))
    => /\ last.new_version = 1 + MaxOf({last.versions[r] : r \in ReplicaSet(last.file)})
       /\ getFileMetadata(file_store[last.node], last.file).version = last.new_version

(* C17: a merge that ran while some replica had not answered is made good by *)
(* a later one: once mergeFile has returned true for a file at least twice   *)
(* and every datagram has been handled, with every replica up and reachable, *)
(* all replicas that hold the file hold the same block_ids and version, and  *)
(* every replica holds it if one does.                                       *)
C17_LaterMergeConverges ==
  \A f \in ProtocolFiles :
    (MergedCount(f) >= 2 /\ Quiet)
      => \A r1, r2 \in ReplicaSet(f) :
           getFileMetadata(file_store[r1], f) = getFileMetadata(file_store[r2], f)

----------------------------------------------------------------------------
(* Properties of Spec: what createFile and getFile wait for *)

(* number of CREATE_REQUEST datagrams in the bag *)
CreateRequests(net) ==
  BagCardinality([m \in {x \in BagToSet(net) : x.type = "CREATE_REQUEST"} |-> net[m]])

C19_CreateWaitsForAcks ==
  (last.op = "create" /\ last.ok)
    => \/ last.elapsed_ms >= AckTimeoutMs
       \/ /\ \A r \in Range(last.replicas) : hasFile(file_store[r], last.file)
          /\ \A m \in InFlight :
               m.type \in {"CREATE_REQUEST", "CREATE_RESPONSE"} => m.body.hydfs_filename # last.file

(* C20: a getFile that has sent its GET_REQUEST returns.  When no result has *)
(* been set for it, its return is false, sends no further datagram and       *)
(* takes the call's entry out of pending_gets; no returned call leaves an    *)
(* entry behind.                                                             *)
C20_GetTerminates ==
  /\ \A n \in Clients : (caller[n].pc = "get_wait") ~> Idle(n)
  /\ [](\A n \in Clients : Idle(n) => DOMAIN pending_gets[n] = {})
  /\ [][\A n \in Clients :
          (/\ caller[n].pc = "get_wait"
           /\ Idle(n)'
           /\ caller[n].hydfs_filename \notin DOMAIN get_results[n])
            => /\ last' = GetOutcome(n, caller[n].hydfs_filename, FALSE, caller[n].must)
               /\ network' = network
               /\ caller[n].hydfs_filename \notin DOMAIN pending_gets'[n]]_vars

(* a getFile whose negative GET_RESPONSE was dropped has returned false by   *)
(* timeout and left no pending entry                                         *)
C20_Witness ==
  /\ last.op = "get"
  /\ ~last.ok
  /\ Idle(last.node)
  /\ DOMAIN pending_gets[last.node] = {}
  /\ DOMAIN get_results[last.node] = {}
  /\ ops = 1

(* C21: handling a GET_RESPONSE that answers a getFile call which has        *)
(* already returned by timeout changes neither pending_gets, get_results nor *)
(* the local files of the node, whatever commands were typed in between.     *)
C21_LateResponseDropped ==
  [][(/\ last'.op = "handle"
      /\ last'.type = "GET_RESPONSE"
      /\ last'.call < timed_out[last'.node])
       => UNCHANGED <<pending_gets, get_results, local_file_cache>>]_vars

----------------------------------------------------------------------------
(* Properties of SpecLs *)

(* C22: when listFileLocations returns, each replica r of the file has one   *)
(* of three statuses: HAS only if an answer that r sent said the file        *)
(* exists, NO FILE only if an answer that r sent said it does not, and       *)
(* NO RESPONSE only if no answer of r arrived before the wait ended.         *)
C22_LsStatusPerReplica ==
  last.op = "ls"
    => \A r \in Range(last.replicas) :
         LET answers == {a \in Range(last.responses) : a.from = r}
         IN /\ last.status[r] \in {"HAS", "NO FILE", "NO RESPONSE"}
            /\ last.status[r] = "HAS" => \E a \in answers : a.exists
            /\ last.status[r] = "NO FILE" => \E a \in answers : ~a.exists
            /\ last.status[r] = "NO RESPONSE" => answers = {}

(* the blocks of `filename' that the store lists in its block_ids and holds  *)
InstalledBlocks(s, filename) ==
  IF hasFile(s, filename)
  THEN {s.blocks[id] : id \in Range(s.files[filename].block_ids) \cap DOMAIN s.blocks}
  ELSE {}

(* C30: appendFile returns true only if the coordinator has installed the    *)
(* new block: for every append that returned true, the first replica of the  *)
(* file holds the file with a block of that client and sequence number,      *)
(* carrying the appended data.  An append whose request is lost, or reaches  *)
(* a coordinator that does not hold the file, has not returned true.         *)
C30_AppendTrueOnlyIfInstalled ==
  \A a \in acked :
    \E block \in InstalledBlocks(file_store[Replicas(a.file)[1]], a.file) :
      /\ block.client_id = PositionString(a.client)
      /\ block.sequence_num = a.sequence_num
      /\ block.data = a.data

(* C29: when two getFile calls for the same name are in progress on one node *)
(* at the same time, each call's local file and return value come from the   *)
(* response to its own request: an accepted GET_RESPONSE is written to the   *)
(* local file of the call that asked for it, and a call that returns or      *)
(* times out leaves the pending entry of the other waiting call in place.    *)
C29_NoAliasing ==
  [][/\ (/\ last'.op = "handle"
         /\ last'.type = "GET_RESPONSE"
         /\ last'.ok
         /\ last'.success)
          => pending_gets[last'.node][last'.file] = PairLocal[last'.call]
     /\ \A t \in ConcThreads :
          (Th(t).pc = "get_wait" /\ thread'[t].pc = "idle")
            => \A u \in ConcThreads \ {t} :
                 Th(u).pc = "get_wait"
                   => Th(u).hydfs_filename \in DOMAIN pending_gets'[PairNode]]_vars

(* the first block of `filename' on each node that stores the file with a    *)
(* block                                                                     *)
FirstBlocks(filename) ==
  {file_store[n].blocks[file_store[n].files[filename].block_ids[1]] :
     n \in {r \in Nodes : /\ hasFile(file_store[r], filename)
                          /\ file_store[r].files[filename].block_ids # <<>>
                          /\ file_store[r].files[filename].block_ids[1]
                               \in DOMAIN file_store[r].blocks}}

(* C31: once no CREATE_REQUEST for a name is in flight, every node that      *)
(* stores the file holds the same first block: same block_id, client_id,     *)
(* timestamp and data.                                                       *)
C31_SameFirstBlock ==
  \A f \in FileNames :
    (\A m \in InFlight : m.type = "CREATE_REQUEST" => m.body.hydfs_filename # f)
      => Cardinality(FirstBlocks(f)) <= 1

(* C32: a replica that has handled REPLICATE_BLOCK(f, b) lists b.block_id in *)
(* f's block_ids and stores b itself under that id, whether it held f before *)
(* or created f on the late arrival.                                         *)
C32_ReplicatedBlockKept ==
  (last.op = "handle" /\ last.type = "REPLICATE_BLOCK")
    => LET store == file_store[last.node]
       IN /\ hasFile(store, last.file)
          /\ last.block.block_id \in Range(store.files[last.file].block_ids)
          /\ last.block.block_id \in DOMAIN store.blocks
          /\ store.blocks[last.block.block_id] = last.block

(* the response lists, for every append in `must', a block of that client    *)
(* with that sequence number and data                                        *)
ListsWrites(resp, must) ==
  \A a \in must :
    \E i \in DOMAIN resp.blocks :
      /\ resp.blocks[i].block_id \in Range(resp.metadata.block_ids)
      /\ resp.blocks[i].client_id = PositionString(a.client)
      /\ resp.blocks[i].sequence_num = a.sequence_num
      /\ resp.blocks[i].data = a.data

(* C33: when a waiting getFile call receives a GET_RESPONSE whose block_ids  *)
(* lack a block the caller had appended before the get, the pending get is   *)
(* marked failed, so that the waiter wakes to a failure, and no local file   *)
(* is written from the response.                                             *)
C33_UnsatisfiedResponseFailsGet ==
  [][\A m \in InFlight :
       (/\ m.type = "GET_RESPONSE"
        /\ network' = Take(m)
        /\ last'.op = "handle"
        /\ caller[m.dst].pc = "get_wait"
        /\ caller[m.dst].hydfs_filename = m.body.metadata.hydfs_filename
        /\ m.body.metadata.hydfs_filename \in DOMAIN pending_gets[m.dst]
        /\ m.body.success
        /\ ~ListsWrites(m.body, caller[m.dst].must))
         => /\ m.body.metadata.hydfs_filename \in DOMAIN get_results'[m.dst]
            /\ ~get_results'[m.dst][m.body.metadata.hydfs_filename]
            /\ local_file_cache' = local_file_cache]_vars

(* the data of the blocks of `blocks' taken in the order of block_ids *)
Concatenation(block_ids, blocks) ==
  Flatten([i \in DOMAIN block_ids |->
             LET held == {j \in DOMAIN blocks : blocks[j].block_id = block_ids[i]}
             IN IF held = {} THEN <<>> ELSE blocks[CHOOSE j \in held : TRUE].data])

(* C34: a successful get writes to the local file exactly the concatenation  *)
(* of the blocks' data in the order of the file metadata's block_ids: the    *)
(* metadata and blocks of the node's own store for a local read, those the   *)
(* serving replica put into the GET_RESPONSE for a remote read.              *)
C34_GetWritesConcatenation ==
  [][/\ \A n \in Nodes :
          /\ (caller[n].pc = "idle" /\ caller'[n].pc = "get_check")
                => caller'[n].data =
                     Concatenation(
                       getFileMetadata(file_store[n], caller'[n].hydfs_filename).block_ids,
                       getFileBlocks(file_store[n], caller'[n].hydfs_filename))
          /\ (caller[n].pc = "get_check" /\ caller'[n].pc = "idle" /\ last'.ok)
                => local_file_cache'[n][caller[n].local_filename] = caller[n].data
     /\ \A m \in InFlight :
          (/\ m.type = "GET_RESPONSE"
           /\ network' = Take(m)
           /\ last'.op = "handle"
           /\ last'.ok
           /\ m.body.metadata.hydfs_filename \in DOMAIN get_results'[m.dst]
           /\ get_results'[m.dst][m.body.metadata.hydfs_filename])
            => local_file_cache'[m.dst][pending_gets[m.dst][m.body.metadata.hydfs_filename]]
                 = Concatenation(m.body.metadata.block_ids, m.body.blocks)]_vars

IsPrefix(a, b) == Len(a) <= Len(b) /\ SubSeq(b, 1, Len(a)) = a

(* C35: a file's block_ids only grows at its end: in every step of the       *)
(* protocol, a node that holds a file still holds it afterwards and the      *)
(* block_ids before the step is a prefix of the block_ids after it; hence    *)
(* the same for any two observations of the file on that node.  No step of   *)
(* the protocol merges.                                                      *)
C35_BlockIdsGrowAtEnd ==
  [][\A n \in Nodes, f \in FileNames :
       hasFile(file_store[n], f)
         => /\ hasFile(file_store'[n], f)
            /\ IsPrefix(file_store[n].files[f].block_ids,
                        file_store'[n].files[f].block_ids)]_vars

(* a replica that held a block of the file has appended a replicated block   *)
C35_Witness ==
  /\ last.op = "handle"
  /\ last.type = "REPLICATE_BLOCK"
  /\ last.held
  /\ last.before.block_ids # <<>>
  /\ Len(file_store[last.node].files[last.file].block_ids)
       = Len(last.before.block_ids) + 1

(* C36: once a block is stored under a block_id on a node, the block under   *)
(* that id never changes: a step either keeps it as it is or removes it.     *)
C36_BlocksImmutable ==
  [][\A n \in Nodes :
       \A id \in DOMAIN file_store[n].blocks \cap DOMAIN file_store'[n].blocks :
         file_store'[n].blocks[id] = file_store[n].blocks[id]]_vars

(* C37: deleteFile(f) and mergeFile(f, ...) on a store leave every other     *)
(* file g of the store as it was: the same metadata and the same bytes from  *)
(* getFile(g).                                                               *)
C37_OtherFilesUntouched ==
  [][(last'.op \in {"delete", "merge"} /\ ops' = ops + 1)
       => \A g \in FileNames \ {last'.file} :
            /\ hasFile(TheStore, g) = hasFile(file_store'[StoreNode], g)
            /\ getFileMetadata(file_store'[StoreNode], g) = getFileMetadata(TheStore, g)
            /\ getFile(file_store'[StoreNode], g) = getFile(TheStore, g)]_vars

(* C38: removeNode(x) removes only node x: the nodes in the ring after the   *)
(* call are those that were in it before, less x; a node that took x's ring  *)
(* position stays, and removing a node that is not in the ring leaves the    *)
(* ring as it was.                                                           *)
C38_RemoveOnlyThatNode ==
  [][\A x \in RingNodes :
       RingRemoveNode(x)
         => /\ Range(ring') = Range(ring) \ {x}
            /\ x \notin Range(ring) => ring' = ring]_vars

(* C39: the hash ring of a node holds exactly the nodes of its membership    *)
(* list, whatever JOIN, PING, ACK, GOSSIP and LEAVE messages it has handled  *)
(* and whatever timeouts have fired.                                         *)
C39_RingIsMembership ==
  Range(ring) = DOMAIN mem_list

(* the sequence numbers getNextSequenceNum has returned for `filename', in   *)
(* the order it returned them                                                *)
IssuedFor(filename) ==
  LET calls == SelectSeq(issued, LAMBDA c : c.file = filename)
  IN [i \in DOMAIN calls |-> calls[i].sequence_num]

StrictlyIncreasing(seq) == \A i, j \in DOMAIN seq : i < j => seq[i] < seq[j]

(* the APPEND_REQUESTs for `filename' handed to the socket so far *)
AppendRequests(filename) ==
  {m \in InFlight : m.type = "APPEND_REQUEST" /\ m.body.hydfs_filename = filename}

(* no sequence number of `filename' is carried by two requests *)
NeverReused(filename) ==
  /\ \A m \in AppendRequests(filename) : CopiesIn(m, network) = 1
  /\ \A m \in AppendRequests(filename) :
       m.body.sequence_num \in Range(IssuedFor(filename))
  /\ \A i, j \in DOMAIN IssuedFor(filename) :
       i # j => IssuedFor(filename)[i] # IssuedFor(filename)[j]

(* C40: the sequence numbers one node gives the APPEND_REQUESTs of one file  *)
(* are strictly increasing in the order appendFile takes them from the       *)
(* counter, and no number is carried by two requests or taken twice, also    *)
(* when the calls overlap or sendFileMessage fails.                          *)
C40_SequenceNumbersIncrease ==
  \A f \in FileNames : NeverReused(f) /\ StrictlyIncreasing(IssuedFor(f))

(* both threads took a number for f1 while the other was inside appendFile,  *)
(* the first number's send failed and the second number is on the wire       *)
C40_Witness ==
  /\ Len(IssuedFor("f1")) = 3
  /\ last.op = "append"
  /\ last.file = "f1"
  /\ last.ok
  /\ last.sequence_num = 2
  /\ last.earlier = {1}

----------------------------------------------------------------------------
(* Properties of SpecMessage *)

(* the fields of an entry that travel, as the tests compare them *)
Travels(info, heartbeat_counter) ==
  [node_id |-> info.node_id, status |-> info.status, mode |-> info.mode,
   incarnation |-> info.incarnation, heartbeat_counter |-> heartbeat_counter]

RoundTripped == last.op = "Message::serialize" /\ ~last.throws

(* C27: a membership Message of any of the six types, with entries of any    *)
(* status, serialized into a buffer that holds it and deserialized again     *)
(* keeps its type, its entry count and each entry's node_id, status, mode    *)
(* and incarnation; heartbeat_counter is kept for GOSSIP and is 0 for every  *)
(* other type.                                                               *)
C27_MessageRoundTrip ==
  RoundTripped =>
    /\ ~last.decoded.throws
    /\ last.decoded.message.type = last.m.type
    /\ last.decoded.message.num_messages = Len(last.m.messages)
    /\ Len(last.decoded.message.messages) = Len(last.m.messages)
    /\ \A i \in 1..Len(last.m.messages) :
         LET sent == last.m.messages[i]
             got == last.decoded.message.messages[i]
         IN Travels(got, got.heartbeat_counter)
              = Travels(sent, IF last.m.type = MessageType.GOSSIP
                              THEN sent.heartbeat_counter ELSE 0)

C27_Witness ==
  /\ RoundTripped
  /\ last.m.type = MessageType.GOSSIP
  /\ Len(last.m.messages) = 2
  /\ last.decoded.message.messages[1].heartbeat_counter = 100
  /\ last.decoded.message.messages[2].heartbeat_counter = 200
  /\ last.decoded.message.messages[2].status = 1

Serialized ==
  last.op \in {"NodeId::serialize", "MembershipInfo::serialize", "Message::serialize"}

(* C28: serializing a NodeId, a MembershipInfo or a Message into a buffer    *)
(* smaller than its encoded size throws, and no byte of the value has been   *)
(* written: what the buffer holds afterwards it held before, or is zero.     *)
C28_SmallBufferThrows ==
  (Serialized /\ last.size < last.encoded) =>
    /\ last.throws
    /\ \A o \in DOMAIN last.buffer : o \in DOMAIN Scratch /\ last.buffer[o] = Scratch[o]

C28_Witness ==
  /\ last.op = "MembershipInfo::serialize"
  /\ last.include_heartbeat
  /\ last.size = 52
  /\ last.throws
  /\ last.buffer = Scratch

FileHandled == {100, 102, 103, 104, 106, 109, 110, 111, 112, 113, 114, 115, 116, 117, 118, 119}

MembershipHandlers ==
  {"handlePing", "handleAck", "handleGossip", "handleJoin", "handleLeave", "handleSwitch"}

(* C23: a received datagram is dispatched by its first byte alone: below     *)
(* 100 to the membership handler of that message type, 100 or above to the   *)
(* file-plane handler selected by it, and a first byte without a handler is  *)
(* dropped and logged.                                                       *)
C23_DispatchByFirstByte ==
  (last.op = "handleIncoming" /\ last.delivered) =>
    /\ last.first_byte \in 0..5 => last.route \in MembershipHandlers
    /\ last.first_byte \in FileHandled => last.route = "handleFileMessage"
    /\ last.first_byte \notin (0..5) \cup FileHandled => last.route = "default"

----------------------------------------------------------------------------
(* Properties of SpecWire *)

(* C25: every message of the file plane, encoded by its serialize, sent and  *)
(* decoded by its deserialize, comes back equal field for field, its blocks  *)
(* and its metadata included.                                                *)
C25_FileRoundTrip ==
  last.op = "round trip" => (~last.decoded.throws /\ last.decoded.msg = last.msg)

(* C24: a datagram of the file plane whose body was cut short is rejected    *)
(* by the decoder and dropped: receiving it changes neither the block        *)
(* store, nor the client-write index, nor a pending request.                 *)
C24_TruncatedIsDropped ==
  [][(last'.op = "receive" /\ last'.cut < last'.size) =>
       /\ last'.rejected
       /\ UNCHANGED <<file_store, client_tracker, pending_gets, get_results,
                      pending_ls>>]_vars

====
